---- MODULE Spec2Model ----
(***************************************************************************)
(* Dependency-version resolution of the Angular migrator:                  *)
(*   - enforcePeerCompatibility (src/src/tools/scaffold_project.ts)        *)
(*   - getPeerDeps              (src/src/utils/npm.ts)                     *)
(*   - mapLimit                 (src/src/tools/analyze_project.ts)         *)
(*   - scaffoldProject, computeTargetVersion                               *)
(*                              (src/src/tools/scaffold_project.ts)        *)
(*   - getLatestVersion         (src/src/utils/npm.ts)                     *)
(* A PackageMap (a JS object) is a sequence of [name, spec] records with   *)
(* unique names, so that the key order JS iterates in is part of the       *)
(* state.                                                                  *)
(***************************************************************************)
EXTENDS Integers, Sequences, FiniteSets, TLC

VARIABLES
    depsIn,      \* parameter depsIn of enforcePeerCompatibility
    devDepsIn,   \* parameter devDepsIn of enforcePeerCompatibility
    deps,        \* local deps (the copy that is mutated and returned)
    devDeps,     \* local devDeps
    universe,    \* the snapshot { ...deps, ...devDeps } taken on entry
    idx,         \* position of the for-loop over Object.entries(universe)
    pc,          \* "await" (getPeerDeps of entry idx in flight) | "done"
    upgraded,    \* the decision records pushed so far
    processed,   \* the (requirer, peer) pairs handled so far, in order
    registry,    \* what `npm view name@spec` answered, per (name, spec)
    run,         \* 1: the first invocation, 2: the one on its result
    cancelled,   \* the client has cancelled the tool call that is running
    mlN,         \* mapLimit: items.length
    mlLimit,     \* mapLimit: limit
    mlI,         \* mapLimit: i, the next item to start (0-based)
    mlActive,    \* mapLimit: active
    mlTask,      \* mapLimit: per item "idle" | "running" | "done" | "failed"
    mlResults,   \* mapLimit: results, per item
    mlSettled,   \* mapLimit: the returned promise
    mlResolveCalls, \* mapLimit: how often resolve(results) was called
    scanList,    \* analyzeProject: the names of scanList
    oldDeps,     \* scaffoldProject: dependencies of the old package.json
    oldDevDeps,  \* scaffoldProject: its devDependencies
    opts,        \* scaffoldProject: upgradeStrategy and targetAngularVersion
    nextDeps,    \* scaffoldProject: nextDeps
    nextDevDeps, \* scaffoldProject: nextDevDeps
    planPc,      \* scaffoldProject: "idle" | "deps" | "devDeps" | "cli" |
                 \*   "planned" | "peers" | "frozen"
    planIdx,     \* scaffoldProject: position of pushSet's loop
    targets,     \* what computeTargetVersion returned, call by call
    plan,        \* scaffoldProject: the ScaffoldPlan returned
    latestCache, \* npm.ts: the module-level Map latestCache
    queries,     \* per package, the `npm view <pkg> versions` runs issued
    cacheSets,   \* per package, the latestCache.set calls made
    lvPc,        \* getLatestVersion: "idle" | "versions" | "fallback" |
                 \*   "returned"
    lvListed,    \* getLatestVersion: what the versions run gave
    lvResult,    \* getLatestVersion: the value returned
    fsTool,      \* the tool that runs: "none" | "analyze" | "scaffold" |
                 \*   "assets" | "component"
    fsArgs,      \* its arguments, and the disk it was started on
    fsPc,        \* where the tool stands
    fsLog,       \* the file operations and spawned commands so far
    fsDisk,      \* the disk: pairs <<path, content>>
    fsReport     \* what the tool returns

vars == <<depsIn, devDepsIn, deps, devDeps, universe, idx, pc, upgraded,
          processed, registry, run, cancelled,
          mlN, mlLimit, mlI, mlActive, mlTask, mlResults, mlSettled,
          mlResolveCalls, scanList,
          oldDeps, oldDevDeps, opts, nextDeps, nextDevDeps, planPc, planIdx,
          targets, plan, latestCache, queries, cacheSets,
          lvPc, lvListed, lvResult,
          fsTool, fsArgs, fsPc, fsLog, fsDisk, fsReport>>

peerVars == <<depsIn, devDepsIn, deps, devDeps, universe, idx, pc, upgraded,
              processed, registry, run, cancelled>>

mlVars == <<mlN, mlLimit, mlI, mlActive, mlTask, mlResults, mlSettled,
          mlResolveCalls, scanList>>

planVars == <<oldDeps, oldDevDeps, opts, nextDeps, nextDevDeps, planPc,
              planIdx, targets, plan>>

npmVars == <<latestCache, queries, cacheSets>>

lvVars == <<lvPc, lvListed, lvResult>>

fsVars == <<fsTool, fsArgs, fsPc, fsLog, fsDisk, fsReport>>

----------------------------------------------------------------------------
(* Bounds of the model *)

\* entries of the manifest handed to the resolver (both sections together)
MaxEntries == 2

\* size of the registry: the peers it declares and the lookups it fails,
\* over all (name, spec) keys; every other key has no peers
MaxRegistry == 2

\* peers one registry answer declares
MaxPeers == 2

\* items handed to mapLimit, and the largest limit tried
MaxItems == 3

MaxLimit == 3

\* entries of the old package.json handed to scaffoldProject (both sections
\* together)
MaxPlanEntries == 2

\* versions in one answer of `npm view <pkg> versions`
MaxVersions == 3

----------------------------------------------------------------------------
(* Values *)

Pkgs == {"a", "b", "c"}

\* the packages scaffoldProject and analyzeProject meet: the core package,
\* another package of the @angular/ scope, the CLI, an Angular companion
\* outside the scope, and a third-party package
PlanPkgs == {"@angular/core", "@angular/common", "@angular/cli", "rxjs",
             "lodash"}

\* the packages the packages above declare as peers, and at which ranges
PlanPeers == {"@angular/core", "rxjs"}

PlanPeerRanges == {"^1.0.0", "^2.0.0"}

\* deps[x] of a key that is not there
NoSpec == "undefined"

\* semver.coerce(x) when nothing can be coerced
NoVersion == "null"

\* getPeerDeps' answer when `npm view` exits non-zero
NullMeta == [ok |-> FALSE, peers |-> <<>>]

\* version strings of the manifest handed over: one that is a valid range
\* (an exact version) and one that is no range but coerces
InitSpecs == {"1.0.0", "2.0.0.0"}

\* peer ranges a registry answer can declare, a malformed one included
PeerRanges == {"^1.0.0", "^2.0.0", "latest"}

----------------------------------------------------------------------------
(* semver, on the strings above *)

\* the versions of this model that satisfy range r
RangeSet(r) ==
    CASE r \in {"1.0.0", "^1.0.0"} -> {"1.0.0"}
      [] r \in {"2.0.0", "^2.0.0"} -> {"2.0.0"}
      [] r \in {"", ">=1.0.0"}     -> {"1.0.0", "2.0.0"}
      [] OTHER                     -> {}

\* semver.validRange(s) is not null
ValidRange(s) ==
    s \in {"", "1.0.0", "2.0.0", "^1.0.0", "^2.0.0", ">=1.0.0"}

\* semver.coerce(s)
Coerce(s) ==
    CASE s \in {"1.0.0", "^1.0.0", ">=1.0.0"} -> "1.0.0"
      [] s \in {"2.0.0", "^2.0.0", "2.0.0.0"} -> "2.0.0"
      [] OTHER                                -> NoVersion

\* semver.intersects(a, b, { includePrerelease: true }) of two valid ranges
Intersects(a, b) == RangeSet(a) \cap RangeSet(b) # {}

\* semver.satisfies(v, r)
Satisfies(v, r) == v \in RangeSet(r)

----------------------------------------------------------------------------
(* PackageMap: a JS object as a sequence of [name, spec] *)

Keys(m) == {m[k].name : k \in 1..Len(m)}

Has(m, n) == n \in Keys(m)

Pos(m, n) == CHOOSE k \in 1..Len(m) : m[k].name = n

\* m[n], undefined when the key is not there
Get(m, n) == IF Has(m, n) THEN m[Pos(m, n)].spec ELSE NoSpec

\* m[n] = v: an existing key keeps its position, a new key goes last
Put(m, n, v) ==
    IF Has(m, n)
    THEN [m EXCEPT ![Pos(m, n)].spec = v]
    ELSE Append(m, [name |-> n, spec |-> v])

\* { ...m1, ...m2 }
RECURSIVE Spread(_, _)
Spread(m1, m2) ==
    IF m2 = <<>> THEN m1
    ELSE Spread(Put(m1, Head(m2).name, Head(m2).spec), Tail(m2))

\* the sequences of at most n entries with distinct names
RECURSIVE MapsUpTo(_)
MapsUpTo(n) ==
    IF n = 0 THEN {<<>>}
    ELSE LET shorter == MapsUpTo(n - 1)
         IN  shorter \cup
             {Append(m, [name |-> p, spec |-> s]) :
                 m \in {x \in shorter : Len(x) = n - 1},
                 p \in Pkgs, s \in InitSpecs}

UniqueKeys(m) == \A j, k \in 1..Len(m) : m[j].name = m[k].name => j = k

\* the manifests a caller can hand over: JS objects, so keys are unique
\* within a section
PackageMaps == {m \in MapsUpTo(MaxEntries) : UniqueKeys(m)}

----------------------------------------------------------------------------
(* The registry: getPeerDeps *)

\* one entry of peerDependencies, with its peerDependenciesMeta flag
PeerDecls(self) ==
    IF self \in Pkgs
    THEN [name : Pkgs \ {self}, range : PeerRanges, optional : BOOLEAN]
    ELSE [name : PlanPeers \ {self}, range : PlanPeerRanges,
          optional : BOOLEAN]

RECURSIVE PeerListsUpTo(_, _)
PeerListsUpTo(self, n) ==
    IF n = 0 THEN {<<>>}
    ELSE LET shorter == PeerListsUpTo(self, n - 1)
         IN  shorter \cup
             {Append(l, d) :
                 l \in {x \in shorter : Len(x) = n - 1},
                 d \in PeerDecls(self)}

\* peerDependencies is a JSON object: a peer is declared once, and the
\* order of the keys is the order of the answer
PeerLists(self) ==
    {l \in PeerListsUpTo(self, IF MaxPeers < Cardinality(Pkgs) THEN MaxPeers
                                ELSE Cardinality(Pkgs) - 1) :
        \A j, k \in 1..Len(l) : l[j].name = l[k].name => j = k}

\* what getPeerDeps(name, version) can return: null when `npm view` fails,
\* else the declared peers (none when the output does not parse)
ResponsesOf ==
    [self \in Pkgs \cup PlanPkgs |->
        {NullMeta} \cup {[ok |-> TRUE, peers |-> l] : l \in PeerLists(self)}]

Responses(self) == ResponsesOf[self]

\* the answer for a package without peers
NoPeers == [ok |-> TRUE, peers |-> <<>>]

\* the argument `name@version` of npm view (the bare name for version "")
SpecKey(name, version) == <<name, version>>

\* the keys the registry has answered
Known(reg) == {e.key : e \in reg}

\* what an answer adds to the registry: its declared peers, or the failure
Weight(meta) == IF meta.ok THEN Len(meta.peers) ELSE 1

RECURSIVE TotalWeight(_)
TotalWeight(reg) ==
    IF reg = {} THEN 0
    ELSE LET e == CHOOSE x \in reg : TRUE
         IN  Weight(e.meta) + TotalWeight(reg \ {e})

\* the responses for a package that add at most w to the registry
ResponsesWithin ==
    [self \in Pkgs \cup PlanPkgs |->
        [w \in 0..MaxRegistry |->
            {m \in ResponsesOf[self] : Weight(m) <= w}]]

\* the answers the registry may give for a key: the one it gave before, and
\* for a new key any answer that keeps the registry within MaxRegistry
Answers(reg, key) ==
    IF key \in Known(reg) THEN {e.meta : e \in {x \in reg : x.key = key}}
    ELSE ResponsesWithin[key[1]][MaxRegistry - TotalWeight(reg)]

Remember(reg, key, resp) ==
    IF key \in Known(reg) THEN reg
    ELSE reg \cup {[key |-> key, meta |-> resp]}

----------------------------------------------------------------------------
(* enforcePeerCompatibility *)

\* `!have`
Falsy(have) == have = NoSpec \/ have = ""

\* a lookup that forgets devDependencies: deps[peerName]
HaveDepsOnly(d, dd, peerName) == Get(d, peerName)

\* a lookup in the manifest as it was given: depsIn[peerName] ??
\* devDepsIn[peerName]
HaveAtEntry(d, dd, peerName) ==
    IF Has(depsIn, peerName) THEN Get(depsIn, peerName)
    ELSE Get(devDepsIn, peerName)

\* deps[peerName] ?? devDeps[peerName]
Have(d, dd, peerName) ==
    IF Has(d, peerName) THEN Get(d, peerName) ELSE Get(dd, peerName)

\* the flag `ok` of the loop body
Compatible(have, peerRange) ==
    IF ValidRange(have) /\ ValidRange(peerRange)
    THEN Intersects(have, peerRange)
    ELSE /\ Coerce(have) # NoVersion
         /\ ValidRange(peerRange)
         /\ Satisfies(Coerce(have), peerRange)

AddedRecord(pkg, peer) ==
    [name |-> peer.name, from |-> NoSpec, to |-> peer.range,
     reason |-> <<"added missing peer for", pkg>>]

AlignRecord(pkg, peer, fromSpec) ==
    [name |-> peer.name, from |-> fromSpec, to |-> peer.range,
     reason |-> <<"align to peer range of", pkg>>]

\* the loop body without the `if (!optional)` test
ApplyPeerIgnoreOptional(st, pkg, peer) ==
    LET have == Have(st.deps, st.devDeps, peer.name)
        seen == [st EXCEPT !.processed = Append(@, <<pkg, peer.name>>)]
    IN  IF Falsy(have)
        THEN [seen EXCEPT
                !.deps = Put(@, peer.name, peer.range),
                !.upgraded = Append(@, AddedRecord(pkg, peer))]
        ELSE IF ~Compatible(have, peer.range)
             THEN IF Has(st.deps, peer.name)
                  THEN [seen EXCEPT
                          !.deps = Put(@, peer.name, peer.range),
                          !.upgraded = Append(@, AlignRecord(pkg, peer, have))]
                  ELSE [seen EXCEPT
                          !.devDeps = Put(@, peer.name, peer.range),
                          !.upgraded = Append(@, AlignRecord(pkg, peer, have))]
             ELSE seen

\* the loop body that inserts a missing peer without recording a decision
ApplyPeerSilentAdd(st, pkg, peer) ==
    LET have == Have(st.deps, st.devDeps, peer.name)
        seen == [st EXCEPT !.processed = Append(@, <<pkg, peer.name>>)]
    IN  IF Falsy(have)
        THEN IF ~peer.optional
             THEN [seen EXCEPT !.deps = Put(@, peer.name, peer.range)]
             ELSE seen
        ELSE IF ~Compatible(have, peer.range)
             THEN IF Has(st.deps, peer.name)
                  THEN [seen EXCEPT
                          !.deps = Put(@, peer.name, peer.range),
                          !.upgraded = Append(@, AlignRecord(pkg, peer, have))]
                  ELSE [seen EXCEPT
                          !.devDeps = Put(@, peer.name, peer.range),
                          !.upgraded = Append(@, AlignRecord(pkg, peer, have))]
             ELSE seen

\* a loop body that leaves a peer alone once a requirement has set it
ApplyPeerKeepFirst(st, pkg, peer) ==
    LET have == Have(st.deps, st.devDeps, peer.name)
        seen == [st EXCEPT !.processed = Append(@, <<pkg, peer.name>>)]
        set  == \E k \in 1..Len(st.upgraded) : st.upgraded[k].name = peer.name
    IN  IF Falsy(have)
        THEN IF ~peer.optional
             THEN [seen EXCEPT
                     !.deps = Put(@, peer.name, peer.range),
                     !.upgraded = Append(@, AddedRecord(pkg, peer))]
             ELSE seen
        ELSE IF ~Compatible(have, peer.range) /\ ~set
             THEN IF Has(st.deps, peer.name)
                  THEN [seen EXCEPT
                          !.deps = Put(@, peer.name, peer.range),
                          !.upgraded = Append(@, AlignRecord(pkg, peer, have))]
                  ELSE [seen EXCEPT
                          !.devDeps = Put(@, peer.name, peer.range),
                          !.upgraded = Append(@, AlignRecord(pkg, peer, have))]
             ELSE seen

\* the body of the inner loop for one [peerName, peerRange]; st holds the
\* locals deps, devDeps, upgraded (and the processing order)
ApplyPeer(st, pkg, peer) ==
    LET have == Have(st.deps, st.devDeps, peer.name)
        seen == [st EXCEPT !.processed = Append(@, <<pkg, peer.name>>)]
    IN  IF Falsy(have)
        THEN IF ~peer.optional
             THEN [seen EXCEPT
                     !.deps = Put(@, peer.name, peer.range),
                     !.upgraded = Append(@, AddedRecord(pkg, peer))]
             ELSE seen
        ELSE IF ~Compatible(have, peer.range)
             THEN IF Has(st.deps, peer.name)
                  THEN [seen EXCEPT
                          !.deps = Put(@, peer.name, peer.range),
                          !.upgraded = Append(@, AlignRecord(pkg, peer, have))]
                  ELSE [seen EXCEPT
                          !.devDeps = Put(@, peer.name, peer.range),
                          !.upgraded = Append(@, AlignRecord(pkg, peer, have))]
             ELSE seen

\* the inner loop over Object.entries(peers)
RECURSIVE ApplyPeers(_, _, _)
ApplyPeers(st, pkg, peers) ==
    IF peers = <<>> THEN st
    ELSE ApplyPeers(ApplyPeer(st, pkg, Head(peers)), pkg, Tail(peers))

\* the spread written the other way round: { ...devDeps, ...deps }
UniverseDevFirst(d, dd) == Spread(dd, d)

\* const universe = { ...deps, ...devDeps }
Universe(d, dd) == Spread(d, dd)

Locals == [deps |-> deps, devDeps |-> devDeps, upgraded |-> upgraded,
           processed |-> processed]

\* where the code after position i - 1 of the loop runs to: the await of
\* entry i, or the return when the snapshot has no entry i
Stop(u, i) == IF i <= Len(u) THEN "await" ELSE "done"

\* enforcePeerCompatibility(d, dd) up to its first await (or to its return,
\* when the snapshot is empty)
Enter(d, dd) ==
    /\ depsIn' = d
    /\ devDepsIn' = dd
    /\ deps' = d
    /\ devDeps' = dd
    /\ universe' = Universe(d, dd)
    /\ idx' = 1
    /\ pc' = Stop(Universe(d, dd), 1)
    /\ upgraded' = <<>>
    /\ processed' = <<>>
    /\ cancelled' = cancelled

\* a loop that starts over whenever the entry just handled changed something
AdvanceRestart(i) == IF upgraded' # upgraded THEN 1 ELSE i + 1

\* a loop that is left, instead of continued, when the lookup of entry i
\* gave null
AdvanceBreak(i) ==
    IF \E e \in registry' :
          /\ e.key = SpecKey(universe[i].name, universe[i].spec)
          /\ ~e.meta.ok
    THEN Len(universe) + 1
    ELSE i + 1

\* the for-of loop over Object.entries(universe) moves to the next entry
Advance(i) == i + 1

\* getPeerDeps resolves: the rest of the loop body runs, and the loop goes
\* on to the await of the next entry or, after the last one, to
\* return { deps, devDeps, upgraded }
QueryReturns ==
    /\ pc = "await"
    /\ LET pkg  == universe[idx].name
           spec == universe[idx].spec
           key  == SpecKey(pkg, spec)
       IN  \E meta \in Answers(registry, key) :
             \E st \in {IF meta = NullMeta THEN Locals
                        ELSE ApplyPeers(Locals, pkg, meta.peers)} :
                 /\ registry' = Remember(registry, key, meta)
                 /\ deps' = st.deps
                 /\ devDeps' = st.devDeps
                 /\ upgraded' = st.upgraded
                 /\ processed' = st.processed
    /\ idx' = Advance(idx)
    /\ pc' = Stop(universe, idx')
    /\ UNCHANGED <<depsIn, devDepsIn, universe, run, cancelled>>
    /\ UNCHANGED mlVars
    /\ UNCHANGED <<planVars, npmVars, lvVars>>
    /\ UNCHANGED fsVars

\* the resolver is invoked again, on the manifest it returned
Rerun ==
    /\ pc = "done"
    /\ run = 1
    /\ run' = run + 1
    /\ Enter(deps, devDeps)
    /\ UNCHANGED registry
    /\ UNCHANGED mlVars
    /\ UNCHANGED <<planVars, npmVars, lvVars>>
    /\ UNCHANGED fsVars

----------------------------------------------------------------------------
(* Paths and the path policy: utils/fs.ts. A path is the sequence of its
   segments; the segments of this model are such that one is a substring of
   another only when they are equal, except "app" in "my app". *)

\* process.env.MCP_ROOT_OLD and MCP_ROOT_NEW, resolved
OldRoot == <<"work", "old">>

NewRoot == <<"work", "new">>

AllowedRoots == {OldRoot, NewRoot}

\* normalisation of "", "." and ".." segments, as path.resolve and path.join
\* do it
RECURSIVE NormalizeOnto(_, _)
NormalizeOnto(done, rest) ==
    IF rest = <<>> THEN done
    ELSE IF Head(rest) \in {"", "."}
         THEN NormalizeOnto(done, Tail(rest))
         ELSE IF Head(rest) = ".."
              THEN NormalizeOnto(IF done = <<>> THEN <<>>
                                 ELSE SubSeq(done, 1, Len(done) - 1),
                                 Tail(rest))
              ELSE NormalizeOnto(Append(done, Head(rest)), Tail(rest))

\* path.resolve(p) of an absolute path
Resolve(p) == NormalizeOnto(<<>>, p)

\* path.join(a, b), and path.resolve(a, b) for a relative b
Join(a, b) == NormalizeOnto(<<>>, a \o b)

\* path.basename(p)
Basename(p) == IF p = <<>> THEN "" ELSE p[Len(p)]

\* path.dirname(p)
Dirname(p) == IF p = <<>> THEN <<>> ELSE SubSeq(p, 1, Len(p) - 1)

\* the length of the longest common prefix of two paths
RECURSIVE Common(_, _)
Common(a, b) ==
    IF a = <<>> \/ b = <<>> \/ Head(a) # Head(b) THEN 0
    ELSE 1 + Common(Tail(a), Tail(b))

\* path.relative(from, to)
Relative(from, to) ==
    [k \in 1..(Len(from) - Common(from, to)) |-> ".."]
        \o SubSeq(to, Common(from, to) + 1, Len(to))

\* abs === root || abs.startsWith(root + path.sep)
IsUnder(root, abs) ==
    /\ Len(root) <= Len(abs)
    /\ SubSeq(abs, 1, Len(root)) = root

\* the test `ok` of ensureInsideAllowed, on the resolved path
Allowed(abs) == \E root \in AllowedRoots : IsUnder(root, abs)

\* ensureInsideAllowed(p) returns (and does not throw)
EnsureInsideAllowed(p) == Allowed(Resolve(p))

----------------------------------------------------------------------------
(* The disk and the log of file operations *)

\* fs.existsSync(p)
Exists(disk, p) == \E e \in disk : e[1] = p

\* a file is written (created or replaced) with content c
WriteFile(disk, p, c) == {e \in disk : e[1] # p} \cup {<<p, c>>}

\* fs.mkdirSync(p, { recursive: true }) and fse.ensureDir(p)
EnsureDir(disk, p) == IF Exists(disk, p) THEN disk ELSE disk \cup {<<p, "dir">>}

Op(kind, p) == [op |-> kind, path |-> p]

\* the operations that change the disk
Mutating == {"mkdir", "write", "copy", "utimes", "spawn"}

NoReport == [outcome |-> "none", copied |-> <<>>, updated |-> <<>>,
             created |-> <<>>, skipped |-> <<>>]

NoArgs == [old |-> <<>>, new |-> <<>>, dryRun |-> FALSE, install |-> FALSE,
           comp |-> <<>>, assets |-> FALSE, standalone |-> FALSE,
           route |-> <<>>, disk |-> {}]

\* no tool is running
FsIdle ==
    /\ fsTool = "none"
    /\ fsArgs = NoArgs
    /\ fsPc = "idle"
    /\ fsLog = <<>>
    /\ fsDisk = {}
    /\ fsReport = NoReport

----------------------------------------------------------------------------
(* Idle parts of the state *)

\* scaffoldProject is not running: no options, no plan
NoOpts == [strategy |-> "undefined", target |-> "undefined"]

NoPlan == [deps |-> <<>>, devDeps |-> <<>>, kept |-> <<>>, upgraded |-> <<>>,
           skipped |-> <<>>]

PlanIdle ==
    /\ oldDeps = <<>> /\ oldDevDeps = <<>> /\ opts = NoOpts
    /\ nextDeps = <<>> /\ nextDevDeps = <<>>
    /\ planPc = "idle" /\ planIdx = 1 /\ targets = <<>> /\ plan = NoPlan

\* const latestCache = new Map()
EmptyCache == {}

NoCalls == [n \in PlanPkgs |-> 0]

\* no version (undefined), where versions are sequences of pieces
NoVer == <<>>

\* no call of getLatestVersion is being followed
LatestIdle ==
    /\ lvPc = "idle" /\ lvListed = [kind |-> "fail", versions |-> <<>>]
    /\ lvResult = NoVer

\* the module npm.ts right after it is loaded
NpmFresh ==
    /\ latestCache = EmptyCache /\ queries = NoCalls /\ cacheSets = NoCalls

\* analyzeProject is not running
MlIdle ==
    /\ mlN = 0 /\ mlLimit = 1 /\ mlI = 0 /\ mlActive = 0
    /\ mlTask = <<>> /\ mlResults = <<>>
    /\ mlSettled = "none" /\ mlResolveCalls = 0
    /\ scanList = <<>>

Init ==
    /\ \E d \in PackageMaps, dd \in PackageMaps :
          /\ Len(d) + Len(dd) <= MaxEntries
          /\ depsIn = d
          /\ devDepsIn = dd
          /\ deps = d
          /\ devDeps = dd
          /\ universe = Universe(d, dd)
          /\ pc = Stop(Universe(d, dd), 1)
    /\ idx = 1
    /\ upgraded = <<>>
    /\ processed = <<>>
    /\ registry = {}
    /\ run = 1
    /\ cancelled = FALSE
    /\ MlIdle
    /\ PlanIdle
    /\ NpmFresh
    /\ LatestIdle
    /\ FsIdle

\* one invocation of the resolver, as scaffoldProject makes it
Next == QueryReturns

Spec == Init /\ [][Next]_vars

\* the invocation, followed by a second one on the manifest it returned
\* the client's cancellation of the tool call arrives while the resolver is
\* suspended at an await: the handler takes no signal (`_extra` is not passed
\* on), so nothing of the invocation changes
Cancel ==
    /\ pc = "await"
    /\ ~cancelled
    /\ cancelled' = TRUE
    /\ UNCHANGED <<depsIn, devDepsIn, deps, devDeps, universe, idx, pc,
                   upgraded, processed, registry, run>>
    /\ UNCHANGED mlVars
    /\ UNCHANGED <<planVars, npmVars, lvVars>>
    /\ UNCHANGED fsVars

\* one invocation of the resolver, which the client may cancel
NextCancel == QueryReturns \/ Cancel

SpecCancel == Init /\ [][NextCancel]_vars

NextRerun == QueryReturns \/ Rerun

SpecRerun == Init /\ [][NextRerun]_vars

----------------------------------------------------------------------------
(* The resolver on a manifest with a dist-tag and a registry that declares
   the empty range *)

\* version strings of a manifest that keeps a dist-tag: "latest" is no valid
\* range and does not coerce
EdgeSpecs == InitSpecs \cup {"latest"}

\* peer ranges of a registry that declares the empty range ("", any version)
EdgeRanges == {"^1.0.0", ""}

EdgeDecls(self) ==
    [name : Pkgs \ {self}, range : EdgeRanges, optional : BOOLEAN]

\* the peerDependencies objects of at most n entries such a registry gives
RECURSIVE EdgeListsUpTo(_, _)
EdgeListsUpTo(self, n) ==
    IF n = 0 THEN {<<>>}
    ELSE LET shorter == EdgeListsUpTo(self, n - 1)
         IN  shorter \cup
             UNION {{Append(l, d) :
                        d \in {e \in EdgeDecls(self) :
                                  \A j \in 1..Len(l) : l[j].name # e.name}} :
                    l \in {x \in shorter : Len(x) = n - 1}}

\* the manifests of at most n entries per section over EdgeSpecs
RECURSIVE EdgeMapsUpTo(_)
EdgeMapsUpTo(n) ==
    IF n = 0 THEN {<<>>}
    ELSE LET shorter == EdgeMapsUpTo(n - 1)
         IN  shorter \cup
             UNION {{Append(m, [name |-> p, spec |-> s]) :
                        p \in Pkgs \ Keys(m), s \in EdgeSpecs} :
                    m \in {x \in shorter : Len(x) = n - 1}}

EdgeMaps == EdgeMapsUpTo(MaxEntries + 1)

\* the registries that answer every entry of snapshot u from position k on,
\* declaring at most w peers in all
RECURSIVE Seeded(_, _, _)
Seeded(u, k, w) ==
    IF k > Len(u) THEN {{}}
    ELSE UNION {
           {{[key |-> SpecKey(u[k].name, u[k].spec),
              meta |-> [ok |-> TRUE, peers |-> l]]} \cup rest :
               rest \in Seeded(u, k + 1, w - Len(l))} :
           l \in EdgeListsUpTo(u[k].name,
                               IF w < MaxPeers THEN w ELSE MaxPeers)}

\* enforcePeerCompatibility is called on such a manifest; what npm view will
\* answer for each snapshot entry is fixed
InitEdge ==
    /\ \E d \in EdgeMaps, dd \in EdgeMaps :
          /\ Len(d) + Len(dd) <= MaxEntries + 1
          /\ depsIn = d
          /\ devDepsIn = dd
          /\ deps = d
          /\ devDeps = dd
          /\ universe = Universe(d, dd)
          /\ pc = Stop(Universe(d, dd), 1)
          /\ registry \in Seeded(Universe(d, dd), 1, MaxRegistry)
    /\ idx = 1
    /\ upgraded = <<>>
    /\ processed = <<>>
    /\ run = 1
    /\ cancelled = FALSE
    /\ MlIdle
    /\ PlanIdle
    /\ NpmFresh
    /\ LatestIdle
    /\ FsIdle

NextEdge == QueryReturns

SpecEdge == InitEdge /\ [][NextEdge]_vars

\* Two requirers and a peer they may both declare: the manifest holds a and
\* b in dependencies and c in either section or in both, c at an exact
\* version, at a string that only coerces, at a range wide enough for every
\* version, at a tag, or at the empty string
ConflictSpecs == {"1.0.0", "2.0.0.0", ">=1.0.0", "latest", ""}

Requirers == <<[name |-> "a", spec |-> "1.0.0"], [name |-> "b", spec |-> "1.0.0"]>>

PeerEntry(v) == <<[name |-> "c", spec |-> v]>>

ConflictManifests ==
    {<<Requirers \o PeerEntry(v), <<>>>> : v \in ConflictSpecs}
    \cup {<<PeerEntry(v) \o Requirers, <<>>>> : v \in ConflictSpecs}
    \cup {<<Requirers, PeerEntry(v)>> : v \in ConflictSpecs}
    \cup {<<Requirers \o PeerEntry(v), PeerEntry(w)>> :
             v \in ConflictSpecs, w \in ConflictSpecs}

InitConflict ==
    /\ \E m \in ConflictManifests :
          /\ depsIn = m[1]
          /\ devDepsIn = m[2]
          /\ deps = m[1]
          /\ devDeps = m[2]
          /\ universe = Universe(m[1], m[2])
          /\ pc = Stop(Universe(m[1], m[2]), 1)
    /\ idx = 1
    /\ upgraded = <<>>
    /\ processed = <<>>
    /\ registry = {}
    /\ run = 1
    /\ cancelled = FALSE
    /\ MlIdle
    /\ PlanIdle
    /\ NpmFresh
    /\ LatestIdle
    /\ FsIdle

NextConflict == QueryReturns

SpecConflict == InitConflict /\ [][NextConflict]_vars

----------------------------------------------------------------------------
(* mapLimit, as analyzeProject calls it *)

\* the request's arguments: concurrency may be missing
Requests ==
    {[given |-> FALSE, concurrency |-> 0]} \cup
    {[given |-> TRUE, concurrency |-> c] : c \in 0..MaxLimit}

\* the default of `args.concurrency ?? 6`
DefaultConcurrency == 6

\* concurrency: args.concurrency ?? 6, handed to mapLimit as limit
Concurrency(args) ==
    IF args.given THEN args.concurrency ELSE DefaultConcurrency

\* the result of the task for item k (items are told apart by position)
TaskResult(k) == <<"suggestion", k>>

\* results[idx] before anything is stored there
Empty == <<"empty">>

\* the while loop with `active <= limit` for `active < limit`
RECURSIVE RunLoopOffByOne(_, _, _)
RunLoopOffByOne(st, limit, n) ==
    IF st.active <= limit /\ st.i < n
    THEN RunLoopOffByOne([i |-> st.i + 1,
                          active |-> st.active + 1,
                          task |-> [st.task EXCEPT ![st.i + 1] = "running"]],
                         limit, n)
    ELSE st

\* the while loop of runNext; st holds i, active and the tasks' states
RECURSIVE RunLoop(_, _, _)
RunLoop(st, limit, n) ==
    IF st.active < limit /\ st.i < n
    THEN RunLoop([i |-> st.i + 1,
                  active |-> st.active + 1,
                  task |-> [st.task EXCEPT ![st.i + 1] = "running"]],
                 limit, n)
    ELSE st

\* a test that forgets the tasks still running: `if (i >= items.length)`
ResolvesWhenHandedOut(st, n) == st.i >= n

\* `if (active === 0 && i >= items.length) resolve(results)`
Resolves(st, n) == st.active = 0 /\ st.i >= n

\* runNext() from the state st
RunNext(st) ==
    LET after == RunLoop(st, mlLimit, mlN)
    IN  /\ mlI' = after.i
        /\ mlActive' = after.active
        /\ mlTask' = after.task
        /\ IF Resolves(after, mlN)
           THEN /\ mlResolveCalls' = mlResolveCalls + 1
                /\ mlSettled' = IF mlSettled = "pending" THEN "resolved"
                                 ELSE mlSettled
           ELSE UNCHANGED <<mlResolveCalls, mlSettled>>

\* mapLimit(scanList, concurrency, task): the promise is created and its
\* executor runs runNext() once
MapLimitCall ==
    /\ mlSettled = "none"
    /\ LET after == RunLoop([i |-> mlI, active |-> mlActive, task |-> mlTask],
                            mlLimit, mlN)
       IN  /\ mlI' = after.i
           /\ mlActive' = after.active
           /\ mlTask' = after.task
           /\ IF Resolves(after, mlN)
              THEN mlResolveCalls' = 1 /\ mlSettled' = "resolved"
              ELSE mlResolveCalls' = 0 /\ mlSettled' = "pending"
    /\ UNCHANGED <<mlN, mlLimit, mlResults, scanList>>
    /\ UNCHANGED peerVars
    /\ UNCHANGED <<planVars, npmVars, lvVars>>
    /\ UNCHANGED fsVars

\* a callback that appends its result instead of storing it at idx:
\* results.push(res)
TaskFulfilsPush(k) ==
    /\ mlTask[k] = "running"
    /\ LET free == CHOOSE j \in 1..mlN :
                      /\ mlResults[j] = Empty
                      /\ \A h \in 1..(j - 1) : mlResults[h] # Empty
       IN  mlResults' = [mlResults EXCEPT ![free] = TaskResult(k)]
    /\ RunNext([i |-> mlI, active |-> mlActive - 1,
                task |-> [mlTask EXCEPT ![k] = "done"]])
    /\ UNCHANGED <<mlN, mlLimit, scanList>>
    /\ UNCHANGED peerVars
    /\ UNCHANGED <<planVars, npmVars, lvVars>>
    /\ UNCHANGED fsVars

\* the task of item k fulfils: results[idx] = res; active--; runNext()
TaskFulfils(k) ==
    /\ mlTask[k] = "running"
    /\ mlResults' = [mlResults EXCEPT ![k] = TaskResult(k)]
    /\ RunNext([i |-> mlI, active |-> mlActive - 1,
                task |-> [mlTask EXCEPT ![k] = "done"]])
    /\ UNCHANGED <<mlN, mlLimit, scanList>>
    /\ UNCHANGED peerVars
    /\ UNCHANGED <<planVars, npmVars, lvVars>>
    /\ UNCHANGED fsVars

\* the task of item k rejects: .catch(reject)
TaskRejects(k) ==
    /\ mlTask[k] = "running"
    /\ mlTask' = [mlTask EXCEPT ![k] = "failed"]
    /\ mlSettled' = IF mlSettled = "pending" THEN "rejected" ELSE mlSettled
    /\ UNCHANGED <<mlN, mlLimit, mlI, mlActive, mlResults, mlResolveCalls,
                   scanList>>
    /\ UNCHANGED peerVars
    /\ UNCHANGED <<planVars, npmVars, lvVars>>
    /\ UNCHANGED fsVars

\* the resolver is not running
PeerIdle ==
    /\ depsIn = <<>> /\ devDepsIn = <<>> /\ deps = <<>> /\ devDeps = <<>>
    /\ universe = <<>> /\ idx = 1 /\ pc = "done" /\ upgraded = <<>>
    /\ processed = <<>> /\ registry = {} /\ run = 2
    /\ cancelled = FALSE

\* handleAnalyzeProject has read its arguments and analyzeProject has built
\* scanList; mapLimit is about to be called
InitML ==
    /\ PeerIdle
    /\ mlN \in 0..MaxItems
    /\ \E args \in Requests : mlLimit = Concurrency(args)
    /\ mlI = 0
    /\ mlActive = 0
    /\ mlTask = [k \in 1..mlN |-> "idle"]
    /\ mlResults = [k \in 1..mlN |-> Empty]
    /\ mlSettled = "none"
    /\ mlResolveCalls = 0
    /\ scanList = <<>>
    /\ PlanIdle
    /\ NpmFresh
    /\ LatestIdle
    /\ FsIdle

NextML ==
    \/ MapLimitCall
    \/ \E k \in 1..mlN : TaskFulfils(k)
    \/ \E k \in 1..mlN : TaskRejects(k)

SpecML == InitML /\ [][NextML]_vars

\* mapLimit with tasks that settle: the call is made, and a task that was
\* started fulfils or rejects in the end
FairML ==
    /\ WF_vars(MapLimitCall)
    /\ \A k \in 1..MaxItems :
          WF_vars(k <= mlN /\ (TaskFulfils(k) \/ TaskRejects(k)))

SpecMLFair == InitML /\ [][NextML]_vars /\ FairML

----------------------------------------------------------------------------
(* getLatestVersion, as the sequential callers of scaffoldProject see it *)

\* what the registry's version list can yield for a package: no version
\* (the lookup fails, or lists no stable version), or its latest stable one
LatestVersions == {"2.0.0"}

LatestAnswers == {NoSpec} \cup LatestVersions

\* latestCache.has(pkgName)
Cached(cache, name) == \E e \in cache : e.name = name

\* latestCache.get(pkgName)
CacheGet(cache, name) == (CHOOSE e \in cache : e.name = name).ver

\* latestCache.set(pkgName, ver)
CacheSet(cache, name, ver) ==
    {e \in cache : e.name # name} \cup {[name |-> name, ver |-> ver]}

\* getLatestVersion(pkgName) run from call to return: the value returned,
\* the cache it leaves, and whether `npm view` was run
GetLatest(cache, name) ==
    IF Cached(cache, name)
    THEN {[ver |-> CacheGet(cache, name), cache |-> cache,
           queried |-> FALSE]}
    ELSE {[ver |-> v, cache |-> CacheSet(cache, name, v), queried |-> TRUE] :
             v \in LatestAnswers}

Counted(count, name, yes) ==
    IF yes THEN [count EXCEPT ![name] = @ + 1] ELSE count

----------------------------------------------------------------------------
(* scaffoldProject: the version planner *)

\* version strings of the old package.json
SourceSpecs == {"^1.0.0", ""}

\* opts.targetAngularVersion, when given
TargetVersions == {"1.0.0"}

\* opts.upgradeStrategy, when given
Strategies == {"angularOnly", "all"}

Options ==
    [strategy : {"undefined"} \cup Strategies,
     target : {NoSpec} \cup TargetVersions]

\* name.startsWith("@angular/")
Scoped(name) == name \in {"@angular/core", "@angular/common", "@angular/cli"}

\* isAngularPackage(name)
IsAngularPackage(name) == Scoped(name) \/ name = "zone.js" \/ name = "rxjs"

\* a strategy that defaults to "all"
UpgradeAllByDefault(o) ==
    (IF o.strategy = "undefined" THEN "all" ELSE o.strategy) = "all"

\* (opts.upgradeStrategy ?? "angularOnly") === "all"
UpgradeAll(o) ==
    (IF o.strategy = "undefined" THEN "angularOnly" ELSE o.strategy) = "all"

\* a branch that looks up the CLI's latest version for every package
LatestTargetOfCli(cache, name, why) ==
    {[to |-> g.ver, reason |-> why, cache |-> g.cache,
      queried |-> g.queried] : g \in GetLatest(cache, "@angular/cli")}

\* the result { to: latest, reason } of a branch that looks the latest up
LatestTarget(cache, name, why) ==
    {[to |-> g.ver, reason |-> why, cache |-> g.cache,
      queried |-> g.queried] : g \in GetLatest(cache, name)}

\* computeTargetVersion(name, from, opts): what it returns, the cache it
\* leaves, and whether it ran a registry query
ComputeTargetVersion(name, from, o, cache) ==
    LET keep == {[to |-> from, reason |-> "keep (angularOnly strategy)",
                  cache |-> cache, queried |-> FALSE]}
    IN  IF IsAngularPackage(name)
        THEN IF Scoped(name) /\ ~Falsy(o.target)
             THEN {[to |-> o.target, reason |-> "match targetAngularVersion",
                    cache |-> cache, queried |-> FALSE]}
             ELSE IF name = "@angular/cli"
                  THEN LatestTarget(cache, "@angular/cli",
                                    "align with Angular CLI latest")
                  ELSE IF UpgradeAll(o)
                       THEN LatestTarget(cache, name, "upgrade all (latest)")
                       ELSE keep
        ELSE IF UpgradeAll(o)
             THEN LatestTarget(cache, name, "upgrade all (latest)")
             ELSE keep

\* `if (to) dst[name] = to`
PushTo(dst, name, to) == IF Falsy(to) THEN dst ELSE Put(dst, name, to)

\* where scaffoldProject stands after position i - 1 of the pushSet loop of
\* section phase: in that loop, in the next one, or past both
PlanStop(phase, i, od, odd) ==
    IF phase = "deps" /\ i <= Len(od) THEN <<"deps", i>>
    ELSE IF phase = "deps" /\ Len(odd) >= 1 THEN <<"devDeps", 1>>
    ELSE IF phase = "devDeps" /\ i <= Len(odd) THEN <<"devDeps", i>>
    ELSE <<"cli", 1>>

\* one iteration of pushSet's loop: its effect on dst, the cache and the log
PushEntry(section, src, dst) ==
    {[dst |-> PushTo(dst, src[planIdx].name, out.to),
      cache |-> out.cache,
      queried |-> out.queried,
      target |-> [section |-> section, name |-> src[planIdx].name,
                  from |-> src[planIdx].spec, to |-> out.to,
                  reason |-> out.reason, queried |-> out.queried]] :
        out \in ComputeTargetVersion(src[planIdx].name, src[planIdx].spec,
                                     opts, latestCache)}

\* await pushSet(oldDeps, nextDeps): one entry
PushDeps ==
    /\ planPc = "deps"
    /\ planIdx <= Len(oldDeps)
    /\ \E e \in PushEntry("deps", oldDeps, nextDeps) :
          /\ nextDeps' = e.dst
          /\ latestCache' = e.cache
          /\ queries' = Counted(queries, e.target.name, e.queried)
          /\ cacheSets' = Counted(cacheSets, e.target.name, e.queried)
          /\ targets' = Append(targets, e.target)
    /\ planPc' = PlanStop("deps", planIdx + 1, oldDeps, oldDevDeps)[1]
    /\ planIdx' = PlanStop("deps", planIdx + 1, oldDeps, oldDevDeps)[2]
    /\ UNCHANGED <<oldDeps, oldDevDeps, opts, nextDevDeps, plan>>
    /\ UNCHANGED <<peerVars, mlVars, lvVars>>
    /\ UNCHANGED fsVars

\* await pushSet(oldDevDeps, nextDevDeps): one entry
PushDevDeps ==
    /\ planPc = "devDeps"
    /\ planIdx <= Len(oldDevDeps)
    /\ \E e \in PushEntry("devDeps", oldDevDeps, nextDevDeps) :
          /\ nextDevDeps' = e.dst
          /\ latestCache' = e.cache
          /\ queries' = Counted(queries, e.target.name, e.queried)
          /\ cacheSets' = Counted(cacheSets, e.target.name, e.queried)
          /\ targets' = Append(targets, e.target)
    /\ planPc' = PlanStop("devDeps", planIdx + 1, oldDeps, oldDevDeps)[1]
    /\ planIdx' = PlanStop("devDeps", planIdx + 1, oldDeps, oldDevDeps)[2]
    /\ UNCHANGED <<oldDeps, oldDevDeps, opts, nextDeps, plan>>
    /\ UNCHANGED <<peerVars, mlVars, lvVars>>
    /\ UNCHANGED fsVars

\* the CLI is put into nextDevDeps when pushSet left it out, and the core
\* package forced to the target version when one is given
InjectCli ==
    /\ planPc = "cli"
    /\ \E g \in (IF Has(nextDevDeps, "@angular/cli")
                 THEN {[ver |-> NoSpec, cache |-> latestCache,
                        queried |-> FALSE]}
                 ELSE GetLatest(latestCache, "@angular/cli")) :
          /\ nextDevDeps' =
                IF Has(nextDevDeps, "@angular/cli") THEN nextDevDeps
                ELSE PushTo(nextDevDeps, "@angular/cli", g.ver)
          /\ latestCache' = g.cache
          /\ queries' = Counted(queries, "@angular/cli", g.queried)
          /\ cacheSets' = Counted(cacheSets, "@angular/cli", g.queried)
    /\ nextDeps' = IF Falsy(opts.target) THEN nextDeps
                   ELSE Put(nextDeps, "@angular/core", opts.target)
    /\ planPc' = "planned"
    /\ UNCHANGED <<oldDeps, oldDevDeps, opts, planIdx, targets, plan>>
    /\ UNCHANGED <<peerVars, mlVars, lvVars>>
    /\ UNCHANGED fsVars

\* the old package.json's sections: at most n entries with distinct names
RECURSIVE SourceMapsUpTo(_)
SourceMapsUpTo(n) ==
    IF n = 0 THEN {<<>>}
    ELSE LET shorter == SourceMapsUpTo(n - 1)
         IN  shorter \cup
             {Append(m, [name |-> p, spec |-> s]) :
                 m \in {x \in shorter : Len(x) = n - 1},
                 p \in PlanPkgs, s \in SourceSpecs}

SourceMaps == {m \in SourceMapsUpTo(MaxPlanEntries) : UniqueKeys(m)}

\* scaffoldProject has read the old package.json and is about to build
\* nextDeps and nextDevDeps
InitPlan ==
    /\ PeerIdle
    /\ MlIdle
    /\ NpmFresh
    /\ LatestIdle
    /\ \E od \in SourceMaps, odd \in SourceMaps :
          /\ Len(od) + Len(odd) <= MaxPlanEntries
          /\ oldDeps = od
          /\ oldDevDeps = odd
          /\ planPc = PlanStop("deps", 1, od, odd)[1]
    /\ opts \in Options
    /\ nextDeps = <<>>
    /\ nextDevDeps = <<>>
    /\ planIdx = 1
    /\ targets = <<>>
    /\ plan = NoPlan
    /\ FsIdle

\* the planner: scaffoldProject from its step 2 to the call of
\* enforcePeerCompatibility
NextPlan == PushDeps \/ PushDevDeps \/ InjectCli

SpecPlan == InitPlan /\ [][NextPlan]_vars

\* const peerFix = await enforcePeerCompatibility(nextDeps, nextDevDeps), up
\* to the resolver's first await
CallPeerFix ==
    /\ planPc = "planned"
    /\ planPc' = "peers"
    /\ run' = 1
    /\ Enter(nextDeps, nextDevDeps)
    /\ UNCHANGED registry
    /\ UNCHANGED <<oldDeps, oldDevDeps, opts, nextDeps, nextDevDeps, planIdx,
                   targets, plan>>
    /\ UNCHANGED <<mlVars, npmVars, lvVars>>
    /\ UNCHANGED fsVars

\* Object.assign(target, source)
Assign(target, source) == Spread(target, source)

\* the resolver has returned: its maps are assigned over nextDeps and
\* nextDevDeps and the ScaffoldPlan is built
Freeze ==
    /\ planPc = "peers"
    /\ pc = "done"
    /\ planPc' = "frozen"
    /\ nextDeps' = Assign(nextDeps, deps)
    /\ nextDevDeps' = Assign(nextDevDeps, devDeps)
    /\ plan' = [deps |-> Assign(nextDeps, deps),
                devDeps |-> Assign(nextDevDeps, devDeps),
                kept |-> <<>>,
                upgraded |-> upgraded,
                skipped |-> <<>>]
    /\ UNCHANGED <<oldDeps, oldDevDeps, opts, planIdx, targets>>
    /\ UNCHANGED <<peerVars, mlVars, npmVars, lvVars>>
    /\ UNCHANGED fsVars

\* scaffoldProject from its step 2 to the plan it returns
NextScaffold ==
    PushDeps \/ PushDevDeps \/ InjectCli \/ CallPeerFix \/ QueryReturns
        \/ Freeze

SpecScaffold == InitPlan /\ [][NextScaffold]_vars

----------------------------------------------------------------------------
(* getLatestVersion: choosing the latest stable version *)

\* A version string is the sequence of its dot-separated pieces; a piece is
\* a numeral n, followed by a pre-release tag ("0-beta") when pre is TRUE.
Piece(n, pre) == [n |-> n, pre |-> pre]

Stable3(a, b, c) == <<Piece(a, FALSE), Piece(b, FALSE), Piece(c, FALSE)>>

\* "a.b.c-beta.1"
Beta3(a, b, c) ==
    <<Piece(a, FALSE), Piece(b, FALSE), Piece(c, TRUE), Piece(1, FALSE)>>

\* the versions a registry can list: stable ones that numeric and
\* lexicographic order rank differently, one with a fourth piece, and
\* pre-releases above and below them
Versions ==
    {Stable3(2, 0, 0), Stable3(2, 9, 0), Stable3(2, 10, 0),
     Stable3(10, 0, 0),
     Stable3(2, 10, 0) \o <<Piece(1, FALSE)>>,
     Beta3(2, 10, 0), Beta3(10, 0, 0), Beta3(11, 0, 0)}

\* v.includes('-') || v.includes('beta') || v.includes('alpha') ||
\* v.includes('rc'): the tag of a piece is where these occur
HasPreReleaseMark(v) == \E k \in 1..Len(v) : v[k].pre

\* Number(piece) || 0: NaN for a piece with a tag, and NaN || 0 is 0
PartOf(v, i) ==
    IF i > Len(v) THEN 0 ELSE IF v[i].pre THEN 0 ELSE v[i].n

Longer(a, b) == IF Len(a) >= Len(b) THEN Len(a) ELSE Len(b)

\* the decimal digits of n (n < 100)
Digits(n) == IF n < 10 THEN <<n>> ELSE <<n \div 10, n % 10>>

\* the comparator of Array.prototype.sort() without an argument: pieces
\* compared as text
RECURSIVE CompareAsTextFrom(_, _, _)
CompareAsTextFrom(a, b, i) ==
    IF i > Longer(a, b) THEN 0
    ELSE LET x == Digits(PartOf(a, i))
             y == Digits(PartOf(b, i))
         IN  IF x = y THEN CompareAsTextFrom(a, b, i + 1)
             ELSE IF x[1] # y[1] THEN x[1] - y[1]
             ELSE IF Len(x) # Len(y) THEN Len(x) - Len(y)
             ELSE x[2] - y[2]

\* the comparator handed to sort, from piece i on: the first difference of
\* the numeric pieces decides
RECURSIVE CompareFrom(_, _, _)
CompareFrom(a, b, i) ==
    IF i > Longer(a, b) THEN 0
    ELSE IF PartOf(a, i) # PartOf(b, i) THEN PartOf(a, i) - PartOf(b, i)
    ELSE CompareFrom(a, b, i + 1)

\* stableVersions.sort(comparator): a stable sort, by insertion
RECURSIVE InsertSorted(_, _)
InsertSorted(sorted, v) ==
    IF sorted = <<>> THEN <<v>>
    ELSE IF CompareFrom(sorted[Len(sorted)], v, 1) <= 0
         THEN Append(sorted, v)
         ELSE Append(InsertSorted(SubSeq(sorted, 1, Len(sorted) - 1), v),
                     sorted[Len(sorted)])

RECURSIVE SortVersions(_)
SortVersions(vs) ==
    IF vs = <<>> THEN <<>>
    ELSE InsertSorted(SortVersions(SubSeq(vs, 1, Len(vs) - 1)), vs[Len(vs)])

\* a filter that lets every version through
KeepAll(vs) == vs

\* versions.filter(v => no pre-release mark)
StableOnly(vs) == SelectSeq(vs, LAMBDA v : ~HasPreReleaseMark(v))

\* the first element of the sorted list
PickFirst(sorted) == sorted[1]

\* stableVersions[stableVersions.length - 1]
PickLast(sorted) == sorted[Len(sorted)]

\* the body of `if (Array.isArray(versions))`
LatestOfList(vs) ==
    IF StableOnly(vs) = <<>> THEN NoVer
    ELSE PickLast(SortVersions(StableOnly(vs)))

\* the lists `npm view <pkg> versions --json` can print: distinct versions
RECURSIVE VersionListsUpTo(_)
VersionListsUpTo(n) ==
    IF n = 0 THEN {<<>>}
    ELSE LET shorter == VersionListsUpTo(n - 1)
         IN  shorter \cup
             {Append(l, v) : l \in {x \in shorter : Len(x) = n - 1},
                             v \in Versions}

VersionLists ==
    {l \in VersionListsUpTo(MaxVersions) :
        \A j, k \in 1..Len(l) : l[j] = l[k] => j = k}

\* what the run of `npm view <pkg> versions --json` can give: a non-zero
\* exit or no output, a JSON array of versions, JSON that is no array, or
\* text that JSON.parse rejects
VersionsResponses ==
    {[kind |-> k, versions |-> <<>>] : k \in {"fail", "other", "garbled"}}
    \cup {[kind |-> "list", versions |-> l] : l \in VersionLists}

\* what the fallback run of `npm view <pkg> version` can give
FallbackResponses ==
    {[ok |-> FALSE, version |-> NoVer]}
    \cup {[ok |-> TRUE, version |-> v] : v \in Versions}

\* lines 40-47: the fallback version, unless it carries a pre-release mark
LatestOfFallback(f) ==
    IF f.ok /\ ~HasPreReleaseMark(f.version) THEN f.version ELSE NoVer

\* getLatestVersion(pkg) is called on a fresh module: the cache misses and
\* the versions are asked for
InitLatest ==
    /\ PeerIdle
    /\ MlIdle
    /\ PlanIdle
    /\ latestCache = EmptyCache
    /\ queries = Counted(NoCalls, "lodash", TRUE)
    /\ cacheSets = NoCalls
    /\ lvPc = "versions"
    /\ lvListed = [kind |-> "fail", versions |-> <<>>]
    /\ lvResult = NoVer
    /\ FsIdle

\* the versions run returns: ver is computed, cached and returned, or the
\* fallback run is started
VersionsReturn ==
    /\ lvPc = "versions"
    /\ \E r \in VersionsResponses :
          /\ lvListed' = r
          /\ IF r.kind = "garbled"
             THEN /\ lvPc' = "fallback"
                  /\ UNCHANGED <<lvResult, latestCache, cacheSets>>
             ELSE /\ lvPc' = "returned"
                  /\ lvResult' = IF r.kind = "list"
                                 THEN LatestOfList(r.versions) ELSE NoVer
                  /\ latestCache' = CacheSet(latestCache, "lodash", lvResult')
                  /\ cacheSets' = Counted(cacheSets, "lodash", TRUE)
    /\ UNCHANGED queries
    /\ UNCHANGED <<peerVars, mlVars, planVars>>
    /\ UNCHANGED fsVars

\* the fallback run returns
FallbackReturns ==
    /\ lvPc = "fallback"
    /\ \E f \in FallbackResponses :
          /\ lvResult' = LatestOfFallback(f)
          /\ latestCache' = CacheSet(latestCache, "lodash", lvResult')
    /\ cacheSets' = Counted(cacheSets, "lodash", TRUE)
    /\ lvPc' = "returned"
    /\ UNCHANGED <<lvListed, queries>>
    /\ UNCHANGED <<peerVars, mlVars, planVars>>
    /\ UNCHANGED fsVars

NextLatest == VersionsReturn \/ FallbackReturns

SpecLatest == InitLatest /\ [][NextLatest]_vars

----------------------------------------------------------------------------
(* analyzeProject: the package scan, getLatestVersion under mapLimit *)

\* the packages of the scanned package.json
ScanPkgs == {"rxjs", "lodash"}

RECURSIVE NameListsUpTo(_)
NameListsUpTo(n) ==
    IF n = 0 THEN {<<>>}
    ELSE LET shorter == NameListsUpTo(n - 1)
         IN  shorter \cup
             {Append(l, p) : l \in {x \in shorter : Len(x) = n - 1},
                             p \in ScanPkgs}

\* the keys of one section of package.json: no name twice
SectionNames ==
    {l \in NameListsUpTo(MaxItems) :
        \A j, k \in 1..Len(l) : l[j] = l[k] => j = k}

\* scanList: the entries of dependencies, then those of devDependencies
ScanLists ==
    {d \o dd : d \in SectionNames, dd \in SectionNames} \cap
    NameListsUpTo(MaxItems)

\* the while loop of runNext with the scan's task: each task started runs
\* getLatestVersion up to its first await, which is the cache test and, on
\* a miss, the start of the versions run
RECURSIVE ScanLoop(_, _)
ScanLoop(st, cache) ==
    IF st.active < mlLimit /\ st.i < mlN
    THEN LET name == scanList[st.i + 1]
             hit == Cached(cache, name)
         IN  ScanLoop([i |-> st.i + 1,
                       active |-> st.active + 1,
                       task |-> [st.task EXCEPT ![st.i + 1] =
                                   IF hit THEN "hit" ELSE "versions"],
                       results |-> st.results,
                       queries |-> Counted(st.queries, name, ~hit),
                       resolves |-> st.resolves],
                      cache)
    ELSE st

\* runNext(): the loop, then `if (active === 0 && i >= items.length)
\* resolve(results)`
ScanRunNext(st, cache) ==
    LET after == ScanLoop(st, cache)
    IN  IF Resolves(after, mlN)
        THEN [after EXCEPT !.resolves = @ + 1]
        ELSE after

\* the task of item k returns with the value `latest`: results[idx] = res;
\* active--; runNext()
ScanTaskDone(st, k, latest, cache) ==
    ScanRunNext([st EXCEPT !.task[k] = "done",
                           !.results[k] = latest,
                           !.active = @ - 1],
                cache)

\* the promise jobs that follow without further I/O: every task that hit
\* the cache returns the cached value, which may start further tasks
RECURSIVE ScanSettle(_, _)
ScanSettle(st, cache) ==
    IF \E k \in 1..mlN : st.task[k] = "hit"
    THEN LET k == CHOOSE j \in 1..mlN :
                     /\ st.task[j] = "hit"
                     /\ \A h \in 1..(j - 1) : st.task[h] # "hit"
         IN  ScanSettle(ScanTaskDone(st, k, CacheGet(cache, scanList[k]),
                                     cache),
                        cache)
    ELSE st

ScanState ==
    [i |-> mlI, active |-> mlActive, task |-> mlTask, results |-> mlResults,
     queries |-> queries, resolves |-> mlResolveCalls]

\* the scan moves to state st
ScanBecomes(st) ==
    /\ mlI' = st.i
    /\ mlActive' = st.active
    /\ mlTask' = st.task
    /\ mlResults' = st.results
    /\ queries' = st.queries
    /\ mlResolveCalls' = st.resolves
    /\ mlSettled' = IF st.resolves > 0 THEN "resolved" ELSE "pending"

\* analyzeProject is about to scan: scanList is built, mapLimit not called
InitScan ==
    /\ PeerIdle
    /\ PlanIdle
    /\ NpmFresh
    /\ LatestIdle
    /\ scanList \in ScanLists
    /\ mlN = Len(scanList)
    /\ \E args \in Requests : mlLimit = Concurrency(args)
    /\ mlI = 0
    /\ mlActive = 0
    /\ mlTask = [k \in 1..mlN |-> "idle"]
    /\ mlResults = [k \in 1..mlN |-> NoSpec]
    /\ mlSettled = "none"
    /\ mlResolveCalls = 0
    /\ FsIdle

\* mapLimit(scanList, concurrency, task) is called: the first tasks start
ScanCall ==
    /\ mlSettled = "none"
    /\ ScanBecomes(ScanSettle(ScanRunNext(ScanState, latestCache),
                              latestCache))
    /\ UNCHANGED <<mlN, mlLimit, scanList, latestCache, cacheSets>>
    /\ UNCHANGED <<peerVars, planVars, lvVars>>
    /\ UNCHANGED fsVars

\* the versions run of task k returns and yields ver, or its output does
\* not parse and the fallback run starts
ScanVersionsReturn(k) ==
    /\ mlTask[k] = "versions"
    /\ \/ \E ver \in LatestAnswers :
            LET cache == CacheSet(latestCache, scanList[k], ver)
            IN  /\ latestCache' = cache
                /\ cacheSets' = Counted(cacheSets, scanList[k], TRUE)
                /\ ScanBecomes(ScanSettle(
                       ScanTaskDone(ScanState, k, ver, cache), cache))
       \/ /\ mlTask' = [mlTask EXCEPT ![k] = "fallback"]
          /\ UNCHANGED <<mlI, mlActive, mlResults, mlSettled,
                         mlResolveCalls, npmVars>>
    /\ UNCHANGED <<mlN, mlLimit, scanList>>
    /\ UNCHANGED <<peerVars, planVars, lvVars>>
    /\ UNCHANGED fsVars

\* the fallback run of task k returns
ScanFallbackReturns(k) ==
    /\ mlTask[k] = "fallback"
    /\ \E ver \in LatestAnswers :
          LET cache == CacheSet(latestCache, scanList[k], ver)
          IN  /\ latestCache' = cache
              /\ cacheSets' = Counted(cacheSets, scanList[k], TRUE)
              /\ ScanBecomes(ScanSettle(
                     ScanTaskDone(ScanState, k, ver, cache), cache))
    /\ UNCHANGED <<mlN, mlLimit, scanList>>
    /\ UNCHANGED <<peerVars, planVars, lvVars>>
    /\ UNCHANGED fsVars

NextScan ==
    \/ ScanCall
    \/ \E k \in 1..mlN : ScanVersionsReturn(k)
    \/ \E k \in 1..mlN : ScanFallbackReturns(k)

SpecScan == InitScan /\ [][NextScan]_vars

----------------------------------------------------------------------------------------------------------------------------------------
(* The tools on the disk: what they read, write and spawn, and where *)

\* the project paths a caller passes
ProjectPaths ==
    {OldRoot, NewRoot, NewRoot \o <<"app">>, NewRoot \o <<"work">>,
     NewRoot \o <<"my app">>, <<"etc">>}

OldPaths == {OldRoot, <<"etc">>}

\* the files of the old project
OldFiles ==
    {<<OldRoot \o <<"package.json">>, "file">>,
     <<OldRoot \o <<"angular.json">>, "file">>,
     <<OldRoot \o <<"src", "assets", "logo.png">>, "file">>,
     <<OldRoot \o <<"src", "app", "x.component.ts">>, "file">>,
     <<OldRoot \o <<"src", "app", "x.component.html">>, "file">>,
     <<OldRoot \o <<"src", "app", "logo.png">>, "file">>}

\* files that may be on the disk besides
OtherFiles ==
    {<<NewRoot \o <<"angular.json">>, "file">>,
     <<NewRoot \o <<"src", "app", "app.routes.ts">>, "file">>,
     <<NewRoot \o <<"src", "app", "x.component.html">>, "file">>,
     <<<<"etc", "angular.json">>, "file">>,
     <<<<"etc", "x.component.ts">>, "file">>}

Disks == {OldFiles \cup extra : extra \in SUBSET OtherFiles}

\* path.basename(p).trim().replace(/\s+/g, "-")
Hyphenate(s) == IF s = "my app" THEN "my-app" ELSE s

DerivedName(new) == Hyphenate(Basename(new))

\* p.replace(name, ""): the first occurrence of name is cut out of the path
\* string, which leaves an empty segment where a segment was the name
RECURSIVE RemoveFirst(_, _)
RemoveFirst(p, name) ==
    IF p = <<>> THEN <<>>
    ELSE IF Head(p) = name THEN <<"">> \o Tail(p)
         ELSE <<Head(p)>> \o RemoveFirst(Tail(p), name)

\* const newProjectPath = opts.newProjectPath.replace(newProjectName, "")
ParentOf(new) == RemoveFirst(new, DerivedName(new))

\* path.join(newProjectPath, newProjectName)
NewProjDir(new) == Join(ParentOf(new), <<DerivedName(new)>>)

Outcome(o) == [NoReport EXCEPT !.outcome = o]

\* scaffoldProject up to `await run("npx", createArgs, newProjectPath)`
ScaffoldCall ==
    /\ fsTool = "scaffold"
    /\ fsPc = "call"
    /\ LET old      == fsArgs.old
           new      == fsArgs.new
           existing == Join(NewProjDir(new), <<"angular.json">>)
           oldPkg   == Join(Resolve(old), <<"package.json">>)
           probe    == <<Op("exists", existing)>>
       IN  IF Exists(fsDisk, existing)
           THEN /\ fsPc' = "returned"
                /\ fsLog' = fsLog \o probe
                /\ fsReport' = Outcome("project already exists")
                /\ UNCHANGED fsDisk
           ELSE IF ~EnsureInsideAllowed(old) \/ ~EnsureInsideAllowed(new)
           THEN /\ fsPc' = "threw"
                /\ fsLog' = fsLog \o probe
                /\ fsReport' = Outcome("policy error")
                /\ UNCHANGED fsDisk
           ELSE IF ~Exists(fsDisk, oldPkg)
           THEN /\ fsPc' = "threw"
                /\ fsLog' = fsLog \o probe \o <<Op("exists", oldPkg)>>
                /\ fsReport' = Outcome("package.json not found")
                /\ UNCHANGED fsDisk
           ELSE /\ fsPc' = "create"
                /\ fsLog' = fsLog \o probe \o
                       <<Op("exists", oldPkg), Op("read", oldPkg),
                         Op("mkdir", Resolve(new)),
                         Op("spawn", Resolve(ParentOf(new)))>>
                /\ fsDisk' = EnsureDir(fsDisk, Resolve(new))
                /\ UNCHANGED fsReport
    /\ UNCHANGED <<fsTool, fsArgs>>
    /\ UNCHANGED <<peerVars, mlVars, planVars, npmVars, lvVars>>

\* the CLI run has returned (having created the project or not); the plan
\* is computed and written into the new package.json
ScaffoldCreated ==
    /\ fsTool = "scaffold"
    /\ fsPc = "create"
    /\ \E created \in BOOLEAN :
          LET dir    == NewProjDir(fsArgs.new)
              newPkg == Join(dir, <<"package.json">>)
              disk   == IF created
                        THEN WriteFile(WriteFile(fsDisk, newPkg, "file"),
                                       Join(dir, <<"angular.json">>), "file")
                        ELSE fsDisk
              probe  == <<Op("exists", newPkg)>>
              write  == IF Exists(disk, newPkg)
                        THEN <<Op("read", newPkg), Op("write", newPkg)>>
                        ELSE <<>>
              after  == IF Exists(disk, newPkg)
                        THEN WriteFile(disk, newPkg, "written") ELSE disk
          IN  /\ fsDisk' = after
              /\ fsReport' = Outcome(IF created THEN "created"
                                     ELSE "creation failed")
              /\ IF fsArgs.install
                 THEN /\ fsPc' = "install"
                      /\ fsLog' = fsLog \o probe \o write \o
                                    <<Op("spawn", dir)>>
                 ELSE /\ fsPc' = "returned"
                      /\ fsLog' = fsLog \o probe \o write
    /\ UNCHANGED <<fsTool, fsArgs>>
    /\ UNCHANGED <<peerVars, mlVars, planVars, npmVars, lvVars>>

\* npm install has returned
ScaffoldInstalled ==
    /\ fsTool = "scaffold"
    /\ fsPc = "install"
    /\ fsPc' = "returned"
    /\ UNCHANGED <<fsTool, fsArgs, fsLog, fsDisk, fsReport>>
    /\ UNCHANGED <<peerVars, mlVars, planVars, npmVars, lvVars>>

\* build.options.main of the first project of angular.json: absent, a file
\* of the project, or a path that climbs out of it
MainRels == {<<>>, <<"src", "main.ts">>, <<"..", "..", "etc", "main.ts">>}

\* analyzeProject up to `await mapLimit(...)`
AnalyzeCall ==
    /\ fsTool = "analyze"
    /\ fsPc = "call"
    /\ LET abs  == Resolve(fsArgs.old)
           pkg  == Join(abs, <<"package.json">>)
           conf == Join(abs, <<"angular.json">>)
       IN  IF ~EnsureInsideAllowed(fsArgs.old)
           THEN /\ fsPc' = "threw"
                /\ fsReport' = Outcome("policy error")
                /\ UNCHANGED fsLog
           ELSE IF ~Exists(fsDisk, pkg)
           THEN /\ fsPc' = "threw"
                /\ fsReport' = Outcome("package.json not found")
                /\ fsLog' = fsLog \o <<Op("exists", pkg)>>
           ELSE \E mainRel \in (IF Exists(fsDisk, conf) THEN MainRels
                                ELSE {<<>>}) :
                  LET mainPath == Join(abs, IF mainRel = <<>>
                                            THEN <<"src", "main.ts">>
                                            ELSE mainRel)
                  IN  /\ fsPc' = "scan"
                      /\ fsLog' = fsLog \o
                            <<Op("exists", pkg), Op("read", pkg),
                              Op("exists", Join(abs, <<"nx.json">>)),
                              Op("exists", conf),
                              Op("exists", Join(abs, <<"apps">>)),
                              Op("exists", Join(abs, <<"src", "app">>)),
                              Op("read", conf),
                              Op("exists", mainPath)>>
                      /\ UNCHANGED fsReport
    /\ UNCHANGED <<fsTool, fsArgs, fsDisk>>
    /\ UNCHANGED <<peerVars, mlVars, planVars, npmVars, lvVars>>

\* the package scan has returned: the module files are globbed and read
AnalyzeScanned ==
    /\ fsTool = "analyze"
    /\ fsPc = "scan"
    /\ fsPc' = "returned"
    /\ fsLog' = fsLog \o <<Op("glob", Resolve(fsArgs.old))>>
    /\ fsReport' = Outcome("analyzed")
    /\ UNCHANGED <<fsTool, fsArgs, fsDisk>>
    /\ UNCHANGED <<peerVars, mlVars, planVars, npmVars, lvVars>>

\* the files globby matches below cwd, in its order: DEFAULT_INCLUDE has
\* src/assets/** and angular.json, DEFAULT_EXCLUDE has src/app/**
AssetCandidates == << <<"src", "assets", "logo.png">>, <<"angular.json">> >>

\* the entries of list l that are files of the disk below dir
RECURSIVE Present(_, _, _)
Present(disk, dir, l) ==
    IF l = <<>> THEN <<>>
    ELSE IF Exists(disk, Join(dir, Head(l)))
         THEN <<Head(l)>> \o Present(disk, dir, Tail(l))
         ELSE Present(disk, dir, Tail(l))

\* const matches = await globby(include, { cwd: oldRoot, ... })
Matches == Present(fsArgs.disk, Resolve(fsArgs.old), AssetCandidates)

\* migrateAssets up to `await globby(...)`
AssetsCall ==
    /\ fsTool = "assets"
    /\ fsPc = "call"
    /\ IF ~EnsureInsideAllowed(fsArgs.old) \/ ~EnsureInsideAllowed(fsArgs.new)
       THEN /\ fsPc' = "threw"
            /\ fsReport' = Outcome("policy error")
            /\ UNCHANGED fsLog
       ELSE /\ fsPc' = "copy"
            /\ fsLog' = Append(fsLog, Op("glob", Resolve(fsArgs.old)))
            /\ UNCHANGED fsReport
    /\ UNCHANGED <<fsTool, fsArgs, fsDisk>>
    /\ UNCHANGED <<peerVars, mlVars, planVars, npmVars, lvVars>>

\* the files the copy loop has dealt with
Handled == Len(fsReport.copied) + Len(fsReport.skipped)

\* one round of the copy loop of migrateAssets: the log, the disk and the
\* report entries it gives
AssetsCopyOne(dry) ==
    LET rel     == Matches[Handled + 1]
        fromAbs == Join(Resolve(fsArgs.old), rel)
        toAbs   == Join(Resolve(fsArgs.new), rel)
        made    == EnsureDir(fsDisk, Dirname(toAbs))
    IN  IF dry
        THEN [log |-> <<>>, disk |-> fsDisk, copied |-> <<rel>>,
              skipped |-> <<>>]
        ELSE IF <<toAbs, "copied">> \in made
        THEN [log |-> <<Op("mkdir", Dirname(toAbs)), Op("exists", toAbs),
                        Op("stat", fromAbs), Op("stat", toAbs)>>,
              disk |-> made, copied |-> <<>>, skipped |-> <<rel>>]
        ELSE [log |-> <<Op("mkdir", Dirname(toAbs)), Op("exists", toAbs),
                        Op("copy", toAbs), Op("stat", fromAbs),
                        Op("utimes", toAbs)>>,
              disk |-> WriteFile(made, toAbs, "copied"),
              copied |-> <<rel>>, skipped |-> <<>>]

\* for (const rel of matches) { ... }: one file
AssetsCopy ==
    /\ fsTool = "assets"
    /\ fsPc = "copy"
    /\ Handled < Len(Matches)
    /\ \E step \in {AssetsCopyOne(fsArgs.dryRun)} :
          /\ fsLog' = fsLog \o step.log
          /\ fsDisk' = step.disk
          /\ fsReport' = [fsReport EXCEPT !.copied = @ \o step.copied,
                                          !.skipped = @ \o step.skipped]
    /\ UNCHANGED <<fsTool, fsArgs, fsPc>>
    /\ UNCHANGED <<peerVars, mlVars, planVars, npmVars, lvVars>>

\* after the loop: angular.json of the new project is read; when it names
\* the project, the style files are looked for and, when an option was
\* added and the run is not dry, the file is written back
AssetsFinish ==
    /\ fsTool = "assets"
    /\ fsPc = "copy"
    /\ Handled = Len(Matches)
    /\ LET newRoot == Resolve(fsArgs.new)
           conf    == Join(newRoot, <<"angular.json">>)
           probes  == <<Op("exists", conf), Op("read", conf),
                        Op("exists", Join(newRoot, <<"src", "styles.css">>))>>
       IN  IF ~Exists(fsDisk, conf)
           THEN /\ fsLog' = Append(fsLog, Op("exists", conf))
                /\ UNCHANGED fsDisk
           ELSE \E named \in BOOLEAN, updatedAngularJson \in BOOLEAN :
                  IF ~named
                  THEN /\ fsLog' = fsLog \o
                            <<Op("exists", conf), Op("read", conf)>>
                       /\ UNCHANGED fsDisk
                  ELSE IF updatedAngularJson /\ ~fsArgs.dryRun
                  THEN /\ fsLog' = fsLog \o probes \o <<Op("write", conf)>>
                       /\ fsDisk' = WriteFile(fsDisk, conf, "written")
                  ELSE /\ fsLog' = fsLog \o probes
                       /\ UNCHANGED fsDisk
    /\ fsPc' = "returned"
    /\ fsReport' = [fsReport EXCEPT !.outcome = "migrated"]
    /\ UNCHANGED <<fsTool, fsArgs>>
    /\ UNCHANGED <<peerVars, mlVars, planVars, npmVars, lvVars>>

\* componentTsPath: a component below src/app, and one reached by climbing
\* out of the project
CompPaths ==
    {<<"src", "app", "x.component.ts">>, <<"..", "..", "etc", "x.component.ts">>}

\* routerConfigPath, <<>> when no route is asked for
RoutePaths == {<<>>, <<"src", "app", "app.routes.ts">>}

\* compTsOldAbs
CompTsOldAbs == Join(Resolve(fsArgs.old), fsArgs.comp)

\* relativizeUnderSrcApp and deriveRelFromSrc: relativeDir
RelativeDir ==
    LET oldRoot   == Resolve(fsArgs.old)
        srcAppRel == Relative(oldRoot \o <<"src", "app">>, CompTsOldAbs)
    IN  IF srcAppRel # <<>> /\ Head(srcAppRel) # ".."
        THEN Dirname(srcAppRel)
        ELSE Dirname(Relative(oldRoot \o <<"src">>, CompTsOldAbs))

\* targetDirAbs
TargetDirAbs ==
    Join(Resolve(fsArgs.new), <<"src", "app">> \o RelativeDir)

\* path.relative(newRoot, p), as the report names a file
Reported(p) == Relative(Resolve(fsArgs.new), p)

\* migrateComponent up to `await globby(siblingGlobs, ...)`
ComponentCall ==
    /\ fsTool = "component"
    /\ fsPc = "call"
    /\ IF ~Exists(fsDisk, CompTsOldAbs)
       THEN /\ fsPc' = "returned"
            /\ fsLog' = Append(fsLog, Op("exists", CompTsOldAbs))
            /\ fsReport' = Outcome("component .ts not found")
            /\ UNCHANGED fsDisk
       ELSE /\ fsPc' = "siblings"
            /\ fsReport' = [fsReport EXCEPT !.created = <<Reported(TargetDirAbs)>>]
            /\ IF fsArgs.dryRun
               THEN /\ fsLog' = fsLog \o
                         <<Op("exists", CompTsOldAbs),
                           Op("glob", Dirname(CompTsOldAbs))>>
                    /\ UNCHANGED fsDisk
               ELSE /\ fsLog' = fsLog \o
                         <<Op("exists", CompTsOldAbs),
                           Op("mkdir", TargetDirAbs),
                           Op("glob", Dirname(CompTsOldAbs))>>
                    /\ fsDisk' = EnsureDir(fsDisk, TargetDirAbs)
    /\ UNCHANGED <<fsTool, fsArgs>>
    /\ UNCHANGED <<peerVars, mlVars, planVars, npmVars, lvVars>>

\* the sibling files globby can match
SiblingCandidates == << <<"x.component.ts">>, <<"x.component.html">> >>

\* files land in targetDir: the log, the disk and the report entries of
\* copying the files `names` of directory `from`
RECURSIVE CopyInto(_, _, _, _)
CopyInto(st, from, names, dry) ==
    IF names = <<>> THEN st
    ELSE LET dest == Join(TargetDirAbs, Head(names))
             next == IF dry
                     THEN [st EXCEPT !.copied = Append(@, Reported(dest))]
                     ELSE [st EXCEPT
                             !.log = @ \o <<Op("copy", dest),
                                            Op("stat", Join(from, Head(names))),
                                            Op("utimes", dest)>>,
                             !.disk = WriteFile(@, dest, "copied"),
                             !.copied = Append(@, Reported(dest))]
         IN  CopyInto(next, from, Tail(names), dry)

\* if (args.makeStandalone && fs.existsSync(compTsNewAbs)) { ... }
Standalone(st, changed, dry) ==
    LET compTsNew == Join(TargetDirAbs, <<"x.component.ts">>)
    IN  IF ~fsArgs.standalone THEN st
        ELSE IF ~Exists(st.disk, compTsNew)
        THEN [st EXCEPT !.log = Append(@, Op("exists", compTsNew))]
        ELSE IF ~changed
        THEN [st EXCEPT !.log = @ \o <<Op("exists", compTsNew),
                                        Op("read", compTsNew)>>]
        ELSE IF dry
        THEN [st EXCEPT !.log = @ \o <<Op("exists", compTsNew),
                                        Op("read", compTsNew)>>,
                        !.updated = Append(@, Reported(compTsNew))]
        ELSE [st EXCEPT !.log = @ \o <<Op("exists", compTsNew),
                                        Op("read", compTsNew),
                                        Op("write", compTsNew)>>,
                        !.disk = WriteFile(@, compTsNew, "written"),
                        !.updated = Append(@, Reported(compTsNew))]

\* if (args.copyCoLocatedAssets) { ... }: the template, once it is in the
\* target directory, is scanned; it refers to logo.png
CoLocated(st, dry) ==
    LET tpl    == Join(TargetDirAbs, <<"x.component.html">>)
        srcAbs == Join(Dirname(CompTsOldAbs), <<"logo.png">>)
        dest   == Join(TargetDirAbs, <<"logo.png">>)
    IN  IF ~fsArgs.assets THEN st
        ELSE IF ~Exists(st.disk, tpl)
        THEN [st EXCEPT !.log = Append(@, Op("exists", tpl))]
        ELSE IF ~Exists(st.disk, srcAbs)
        THEN [st EXCEPT !.log = @ \o <<Op("exists", tpl), Op("read", tpl),
                                        Op("exists", srcAbs)>>]
        ELSE IF dry
        THEN [st EXCEPT !.log = @ \o <<Op("exists", tpl), Op("read", tpl),
                                        Op("exists", srcAbs)>>,
                        !.copied = Append(@, Reported(dest))]
        ELSE [st EXCEPT !.log = @ \o <<Op("exists", tpl), Op("read", tpl),
                                        Op("exists", srcAbs),
                                        Op("copy", dest)>>,
                        !.disk = WriteFile(@, dest, "copied"),
                        !.copied = Append(@, Reported(dest))]

\* if (args.route) { ... }: detectClassName reads the new component file,
\* detectStandalone reads it again unless makeStandalone is set
WireRoute(st, dry) ==
    LET routerFileAbs == Join(Resolve(fsArgs.new), fsArgs.route)
        compTsNew     == Join(TargetDirAbs, <<"x.component.ts">>)
        reads         == <<Op("exists", routerFileAbs), Op("read", compTsNew)>>
                         \o (IF fsArgs.standalone THEN <<>>
                             ELSE <<Op("read", compTsNew)>>)
                         \o <<Op("read", routerFileAbs)>>
    IN  IF fsArgs.route = <<>> THEN st
        ELSE IF ~Exists(st.disk, routerFileAbs)
        THEN [st EXCEPT !.log = Append(@, Op("exists", routerFileAbs))]
        ELSE IF dry
        THEN [st EXCEPT !.log = @ \o reads,
                        !.updated = Append(@, Reported(routerFileAbs))]
        ELSE [st EXCEPT !.log = @ \o reads \o <<Op("write", routerFileAbs)>>,
                        !.disk = WriteFile(@, routerFileAbs, "written"),
                        !.updated = Append(@, Reported(routerFileAbs))]

\* the sibling files are known: they are copied, the component is made
\* standalone, the co-located assets are copied, the route is wired
ComponentCopy ==
    /\ fsTool = "component"
    /\ fsPc = "siblings"
    /\ \E changed \in BOOLEAN :
         \E st \in {WireRoute(CoLocated(Standalone(
                       CopyInto([log |-> fsLog, disk |-> fsDisk,
                                 copied |-> <<>>, updated |-> <<>>],
                                Dirname(CompTsOldAbs),
                                Present(fsArgs.disk, Dirname(CompTsOldAbs),
                                        SiblingCandidates),
                                fsArgs.dryRun),
                       changed, fsArgs.dryRun), fsArgs.dryRun),
                       fsArgs.dryRun)} :
            /\ fsLog' = st.log
            /\ fsDisk' = st.disk
            /\ fsReport' = [fsReport EXCEPT !.outcome = "migrated",
                                            !.copied = st.copied,
                                            !.updated = st.updated]
    /\ fsPc' = "returned"
    /\ UNCHANGED <<fsTool, fsArgs>>
    /\ UNCHANGED <<peerVars, mlVars, planVars, npmVars, lvVars>>

Tools == {"analyze", "scaffold", "assets", "component"}

\* the arguments a caller can give to tool t, on disk d
ArgsOf(t, d) ==
    {[old |-> o, new |-> n, dryRun |-> dry, install |-> ins, comp |-> c,
      assets |-> a, standalone |-> sa, route |-> r, disk |-> d] :
        o \in (IF t = "analyze" THEN ProjectPaths ELSE OldPaths),
        n \in (IF t = "scaffold" THEN ProjectPaths
               ELSE IF t = "analyze" THEN {<<>>} ELSE {NewRoot, <<"etc">>}),
        dry \in (IF t \in {"assets", "component"} THEN BOOLEAN ELSE {FALSE}),
        ins \in (IF t = "scaffold" THEN BOOLEAN ELSE {FALSE}),
        c \in (IF t = "component" THEN CompPaths ELSE {<<>>}),
        a \in (IF t = "component" THEN BOOLEAN ELSE {FALSE}),
        sa \in (IF t = "component" THEN BOOLEAN ELSE {FALSE}),
        r \in (IF t = "component" THEN RoutePaths ELSE {<<>>})}

\* a tool is called
InitTools ==
    /\ PeerIdle
    /\ MlIdle
    /\ PlanIdle
    /\ NpmFresh
    /\ LatestIdle
    /\ fsTool \in Tools
    /\ \E d \in Disks : fsArgs \in ArgsOf(fsTool, d)
    /\ fsDisk = fsArgs.disk
    /\ fsPc = "call"
    /\ fsLog = <<>>
    /\ fsReport = NoReport

NextTools ==
    \/ AnalyzeCall \/ AnalyzeScanned
    \/ ScaffoldCall \/ ScaffoldCreated \/ ScaffoldInstalled
    \/ AssetsCall \/ AssetsCopy \/ AssetsFinish
    \/ ComponentCall \/ ComponentCopy

SpecTools == InitTools /\ [][NextTools]_vars

----------------
(* Reading the state *)

IsAdded(r) == r.reason[1] = "added missing peer for"

IsAligned(r) == r.reason[1] = "align to peer range of"

Requirer(r) == r.reason[2]

Records == {upgraded[k] : k \in 1..Len(upgraded)}

AlphaRank(n) == CASE n = "a" -> 1 [] n = "b" -> 2 [] n = "c" -> 3

\* the registry's answer to the query of snapshot entry k (made once k < idx)
MetaAt(k) ==
    (CHOOSE e \in registry :
        e.key = SpecKey(universe[k].name, universe[k].spec)).meta

\* the peers entry k's answer declares (none for a failed lookup)
PeersAt(k) == IF MetaAt(k).ok THEN MetaAt(k).peers ELSE <<>>

DeclsAt(k) == {PeersAt(k)[j] : j \in 1..Len(PeersAt(k))}

Manifest == Keys(deps) \cup Keys(devDeps)

ManifestIn == Keys(depsIn) \cup Keys(devDepsIn)

RECURSIVE NamesOf(_)
NamesOf(m) == IF m = <<>> THEN <<>> ELSE <<Head(m).name>> \o NamesOf(Tail(m))

RECURSIVE NamesNotIn(_, _)
NamesNotIn(m, S) ==
    IF m = <<>> THEN <<>>
    ELSE (IF Head(m).name \in S THEN <<>> ELSE <<Head(m).name>>)
         \o NamesNotIn(Tail(m), S)

\* the keys of dependencies in their order, then the keys that are only in
\* devDependencies in theirs
KeyOrder == NamesOf(depsIn) \o NamesNotIn(devDepsIn, Keys(depsIn))

RECURSIVE PairsOf(_, _)
PairsOf(pkg, peers) ==
    IF peers = <<>> THEN <<>>
    ELSE <<(<<pkg, Head(peers).name>>)>> \o PairsOf(pkg, Tail(peers))

\* the (requirer, peer) pairs of the first k snapshot entries, requirers in
\* snapshot order and each requirer's peers in the order of its answer
RECURSIVE PairsUpTo(_)
PairsUpTo(k) ==
    IF k = 0 THEN <<>>
    ELSE PairsUpTo(k - 1) \o PairsOf(universe[k].name, PeersAt(k))

\* the section a requirer is processed for
SectionRank(n) == IF Has(depsIn, n) THEN 0 ELSE 1

\* pair x is not after pair y in (section, requirer name, peer name) order
NotAfter(x, y) ==
    \/ SectionRank(x[1]) < SectionRank(y[1])
    \/ /\ SectionRank(x[1]) = SectionRank(y[1])
       /\ \/ AlphaRank(x[1]) < AlphaRank(y[1])
          \/ x[1] = y[1] /\ AlphaRank(x[2]) <= AlphaRank(y[2])

\* what is left of the pass: the snapshot entries whose answer is still to
\* come
Measure == Len(universe) + 1 - idx

\* snapshot entries j and k have answered, and each declares the other at a
\* range the other's snapshot version does not meet
InCycle(j, k) ==
    /\ j # k /\ j < idx /\ k < idx
    /\ \E d \in DeclsAt(j) :
          d.name = universe[k].name
          /\ ~Compatible(universe[k].spec, d.range)
    /\ \E d \in DeclsAt(k) :
          d.name = universe[j].name
          /\ ~Compatible(universe[j].spec, d.range)

PeerCycle == \E j, k \in 1..Len(universe) : InCycle(j, k)

\* the status a call ends with: the function returns its three fields and
\* has no other outcome
Status == IF pc = "done" THEN "returned" ELSE "resolving"

----------------------------------------------------------------------------
(* C1 *)

\* C1: the manifest the resolver returns is a fixed point: run again on the
\* returned dependencies/devDependencies with the same registry answers, the
\* resolver records no decision and returns the same manifest.
C1_FixedPoint ==
    (run = 2 /\ pc = "done") =>
        (upgraded = <<>> /\ deps = depsIn /\ devDeps = devDepsIn)

----------------------------------------------------------------------------
(* C2 *)

\* C2 as claimed: on a cyclic peer graph the resolver ends with the status
\* ExceededRounds.
C2_ExceededRounds ==
    (pc = "done" /\ run = 1 /\ PeerCycle) => Status = "ExceededRounds"

\* C2 as amended: the resolver makes one pass over its snapshot and halts.
\* Every answer lowers Measure, which is never negative, and an invocation
\* that has not returned can take a step; it ends returning normally, every
\* snapshot entry queried once, cyclic peer graph or not.
C2_HaltsAfterOnePass ==
    /\ [](Measure >= 0)
    /\ [](pc = "done" \/ ENABLED QueryReturns)
    /\ [][run' = run => Measure' < Measure]_vars
    /\ [](pc = "done" => Status = "returned" /\ idx = Len(universe) + 1)

C2_Witness == pc = "done" /\ run = 1 /\ PeerCycle /\ Len(upgraded) = 2

----------------------------------------------------------------------------
(* C3 *)

\* C3 as claimed: peer requirements are processed in (section, requirer
\* name, peer name) order, whatever the key orders of the input.
C3_AlphabeticalOrder ==
    \A j, k \in 1..Len(processed) :
        j < k => NotAfter(processed[j], processed[k])

\* C3 as amended: requirers are processed in the key order of the input
\* manifest (the keys of dependencies, then the keys only in
\* devDependencies), and each requirer's peers in the key order of the
\* registry's answer.
C3_KeyOrder ==
    /\ NamesOf(universe) = KeyOrder
    /\ processed = PairsUpTo(idx - 1)

C3_Witness ==
    /\ pc = "done"
    /\ Len(processed) >= 2
    /\ ~NotAfter(processed[1], processed[2])

----------------------------------------------------------------------------
(* C5 *)

\* C5 as claimed: no entry is inserted or overwritten while a peer query of
\* the round is still unissued or in flight.
C5_CollectBeforeApply ==
    (deps # depsIn \/ devDeps # devDepsIn) => idx > Len(universe)

\* C5 as amended: queries are made one at a time in snapshot order, and the
\* changes a requirer triggers are applied when its own query has returned:
\* every decision recorded so far comes from a requirer whose query has
\* returned, and an entry differs from the input only if a decision names it.
C5_ApplyAfterOwnQuery ==
    /\ \A r \in Records :
          /\ Has(universe, Requirer(r))
          /\ Pos(universe, Requirer(r)) < idx
    /\ \A n \in Manifest :
          (Get(deps, n) # Get(depsIn, n) \/ Get(devDeps, n) # Get(devDepsIn, n))
              => \E r \in Records : r.name = n
    /\ (pc = "await" => idx <= Len(universe))

C5_Witness == pc = "await" /\ upgraded # <<>> /\ run = 1

----------------------------------------------------------------------------
(* C6, C7: mapLimit *)

\* the tasks started and not yet finished
InFlight == Cardinality({k \in 1..mlN : mlTask[k] = "running"})

\* C6: with an integer limit >= 1, the number of tasks started and not yet
\* finished never exceeds the limit, whatever the order of completions.
C6_InFlightBounded ==
    mlLimit >= 1 => (InFlight <= mlLimit /\ mlActive <= mlLimit)

C6_Witness ==
    /\ mlLimit >= 1
    /\ InFlight = mlLimit
    /\ mlI < mlN
    /\ \E k \in 1..mlN : mlTask[k] = "done"

\* C7: a concurrency limit below 1 is rejected with an error before any
\* query is issued: once mapLimit has been called with such a limit, the
\* outcome is an error and no task was started.
C7_RejectsBadLimit ==
    (mlLimit < 1 /\ mlSettled # "none") =>
        (mlSettled = "rejected" /\ mlI = 0)

----------------------------------------------------------------------------
(* C8, C9, C10: the decisions of the resolver *)

\* the requirement behind record r: a returned answer of r's requirer that
\* declares r's package at the range r.to, with the given optional flag
Triggered(r, optional) ==
    \E k \in 1..(idx - 1) :
        /\ universe[k].name = Requirer(r)
        /\ \E d \in DeclsAt(k) :
              d.name = r.name /\ d.range = r.to /\ d.optional = optional

FirstRecordOf(n) ==
    upgraded[CHOOSE k \in 1..Len(upgraded) :
                /\ upgraded[k].name = n
                /\ \A j \in 1..(k - 1) : upgraded[j].name # n]

LastRecordOf(n) ==
    upgraded[CHOOSE k \in 1..Len(upgraded) :
                /\ upgraded[k].name = n
                /\ \A j \in (k + 1)..Len(upgraded) : upgraded[j].name # n]

\* some returned answer declares n as a mandatory peer
MandatoryPeer(n) ==
    \E k \in 1..(idx - 1) : \E d \in DeclsAt(k) : d.name = n /\ ~d.optional

\* C8: every non-optional peer declared by a snapshot package whose lookup
\* succeeded is in the manifest; a peer that was absent is inserted (into
\* dependencies) with the declared range and an Added decision naming the
\* requirer; a peer that is only ever declared optional is not inserted.
C8_MandatoryPeersPresent ==
    /\ \A k \in 1..(idx - 1) : \A d \in DeclsAt(k) :
          ~d.optional => d.name \in Manifest
    /\ \A n \in Manifest \ ManifestIn :
          /\ Has(deps, n)
          /\ \E r \in Records : r.name = n
          /\ IsAdded(FirstRecordOf(n))
          /\ Triggered(FirstRecordOf(n), FALSE)
          /\ Get(deps, n) = LastRecordOf(n).to
    /\ \A n \in Pkgs \ ManifestIn : ~MandatoryPeer(n) => n \notin Manifest

C8_Witness ==
    /\ pc = "done" /\ run = 1
    /\ \E r \in Records : IsAdded(r)
    /\ \E k \in 1..(idx - 1) : \E d \in DeclsAt(k) :
          d.optional /\ d.name \notin Manifest

\* C9: every decision that adds a package names a package that was in
\* neither section when the round started, carries no old value, and was
\* triggered by a non-optional peer requirement.
C9_AddedSound ==
    \A r \in Records :
        IsAdded(r) =>
            /\ r.name \notin ManifestIn
            /\ r.from = NoSpec
            /\ Triggered(r, FALSE)

C9_Witness ==
    /\ pc = "done" /\ run = 1
    /\ \E r \in Records : IsAdded(r)
    /\ \E k \in 1..(idx - 1) : \E d \in DeclsAt(k) :
          d.name \in Keys(devDepsIn) \ Keys(depsIn)

\* C10: a present peer is overwritten only when the value it holds is
\* incompatible with the requirer's range; the decision's `to` is that
\* range, and the value written satisfies the range.
C10_UpgradedSound ==
    \A r \in Records :
        IsAligned(r) =>
            /\ ~Compatible(r.from, r.to)
            /\ Triggered(r, TRUE) \/ Triggered(r, FALSE)
            /\ Have(deps, devDeps, r.name) = LastRecordOf(r.name).to
            /\ Compatible(r.to, r.to)

----------------------------------------------------------------------------
(* C11, C12: the plan scaffoldProject returns *)

\* the decision records of the returned plan that name package n
DecisionsOn(n) ==
    Cardinality({k \in 1..Len(plan.kept) : plan.kept[k].name = n})
    + Cardinality({k \in 1..Len(plan.upgraded) : plan.upgraded[k].name = n})
    + Cardinality({k \in 1..Len(plan.skipped) : plan.skipped[k].name = n})

\* the package names of the returned manifest
PlanNames == Keys(plan.deps) \cup Keys(plan.devDeps)

\* the package names the decision records name
DecidedNames ==
    {plan.kept[k].name : k \in 1..Len(plan.kept)}
    \cup {plan.upgraded[k].name : k \in 1..Len(plan.upgraded)}
    \cup {plan.skipped[k].name : k \in 1..Len(plan.skipped)}

\* C11: in the returned plan every package of the final manifest has exactly
\* one decision record, and every decision record names a package of the
\* final manifest.
C11_OneDecisionEach ==
    planPc = "frozen" =>
        /\ \A n \in PlanNames : DecisionsOn(n) = 1
        /\ DecidedNames \subseteq PlanNames

\* C12: a package the old package.json lists in both sections is in the
\* final manifest in dependencies only, with a decision that records the
\* drop, and no package is in both sections of the final manifest.
C12_RuntimeEntryWins ==
    planPc = "frozen" =>
        /\ \A n \in Keys(oldDeps) \cap Keys(oldDevDeps) :
              /\ Has(plan.deps, n)
              /\ ~Has(plan.devDeps, n)
              /\ n \in DecidedNames
        /\ Keys(plan.deps) \cap Keys(plan.devDeps) = {}

----------------------------------------------------------------------------
(* C13 .. C17: the planner *)

\* the calls of computeTargetVersion made so far
TargetCalls == {targets[k] : k \in 1..Len(targets)}

\* the section of the planned manifest that call t fills
PlannedSection(t) == IF t.section = "deps" THEN nextDeps ELSE nextDevDeps

\* call t took a branch that asks the registry for the latest version
AsksLatest(t) ==
    t.reason \in {"align with Angular CLI latest", "upgrade all (latest)"}

\* C13: when the lookup that plans a package's target yields no version,
\* the package stays in the planned manifest at the version string it had;
\* a failed lookup removes no package.
C13_FailedLookupKeeps ==
    planPc = "planned" =>
        \A t \in TargetCalls :
            (AsksLatest(t) /\ t.to = NoSpec) =>
                /\ Has(PlannedSection(t), t.name)
                /\ Get(PlannedSection(t), t.name) = t.from

\* C14: the planned target of the CLI package is the registry's latest
\* stable version of the CLI, whatever the strategy and whether or not a
\* target version is given: the explicit-target rule does not apply to it.
C14_CliGetsLatest ==
    \A t \in TargetCalls :
        t.name = "@angular/cli" =>
            /\ t.reason = "align with Angular CLI latest"
            /\ Cached(latestCache, "@angular/cli")
            /\ t.to = CacheGet(latestCache, "@angular/cli")

\* C15: when a target version is given and the old package.json lists the
\* core package, the core package's version in the returned manifest is the
\* target version, whatever the registry answers.
C15_CoreGetsTarget ==
    (/\ planPc = "frozen"
     /\ ~Falsy(opts.target)
     /\ "@angular/core" \in Keys(oldDeps) \cup Keys(oldDevDeps)) =>
        /\ Has(plan.deps, "@angular/core")
        /\ Get(plan.deps, "@angular/core") = opts.target
        /\ Has(plan.devDeps, "@angular/core") =>
              Get(plan.devDeps, "@angular/core") = opts.target

\* the strategy in force is angularOnly (the default)
AngularOnly == opts.strategy \in {"undefined", "angularOnly"}

\* call t is for the core package, and a target version is given
TargetedCore(t) == t.name = "@angular/core" /\ ~Falsy(opts.target)

\* call t is for a package of the @angular/ scope, and a target version is
\* given
TargetedScope(t) == Scoped(t.name) /\ ~Falsy(opts.target)

\* call t left the version string as it was and asked the registry nothing
Kept(t) == t.to = t.from /\ ~t.queried /\ queries[t.name] = 0

\* call t got what getLatestVersion returns for its package
GotLatest(t) ==
    /\ AsksLatest(t)
    /\ Cached(latestCache, t.name)
    /\ t.to = CacheGet(latestCache, t.name)

\* C16 as claimed: under angularOnly every package other than the targeted
\* core package and the CLI keeps its version string, without a lookup.
C16_OthersKept ==
    AngularOnly =>
        \A t \in TargetCalls :
            (~TargetedCore(t) /\ t.name # "@angular/cli") => Kept(t)

\* C16 as amended: under angularOnly every package other than the CLI and,
\* when a target version is given, the packages of the @angular/ scope,
\* keeps its version string as its target, and no registry lookup is made
\* for it.
C16_UnscopedKept ==
    AngularOnly =>
        \A t \in TargetCalls :
            (~TargetedScope(t) /\ t.name # "@angular/cli") => Kept(t)

C16_Witness ==
    /\ planPc = "planned"
    /\ opts.strategy = "undefined"
    /\ ~Falsy(opts.target)
    /\ \E t \in TargetCalls : t.name = "rxjs" /\ t.to = "^1.0.0"
    /\ \E t \in TargetCalls : t.name = "@angular/common" /\ t.to = opts.target

\* C17 as claimed: under strategy all every package other than the targeted
\* core package and the CLI gets the registry's latest stable version.
C17_OthersGetLatest ==
    opts.strategy = "all" =>
        \A t \in TargetCalls :
            (~TargetedCore(t) /\ t.name # "@angular/cli") => GotLatest(t)

\* C17 as amended: under strategy all every package other than the CLI and,
\* when a target version is given, the packages of the @angular/ scope,
\* gets as target what the registry lists as its own latest stable version
\* (no target when the registry yields none).
C17_UnscopedGetLatest ==
    opts.strategy = "all" =>
        \A t \in TargetCalls :
            (~TargetedScope(t) /\ t.name # "@angular/cli") => GotLatest(t)

C17_Witness ==
    /\ planPc = "planned"
    /\ opts.strategy = "all"
    /\ ~Falsy(opts.target)
    /\ \E t \in TargetCalls : t.name = "lodash" /\ t.to = "2.0.0"
    /\ \E t \in TargetCalls : t.name = "@angular/common" /\ t.to = opts.target

----------------------------------------------------------------------------
(* C18: getLatestVersion's choice *)

\* the versions of the answer that carry no pre-release identifier
StableListed ==
    {lvListed.versions[k] : k \in {j \in 1..Len(lvListed.versions) :
                                     ~HasPreReleaseMark(lvListed.versions[j])}}

\* component i of a stable version, 0 where the version has none
Component(v, i) == IF i <= Len(v) THEN v[i].n ELSE 0

\* a is not greater than b, component by component as numbers
NotGreater(a, b) ==
    \/ \A i \in 1..Longer(a, b) : Component(a, i) = Component(b, i)
    \/ \E i \in 1..Longer(a, b) :
          /\ \A j \in 1..(i - 1) : Component(a, j) = Component(b, j)
          /\ Component(a, i) < Component(b, i)

\* C18: of the versions the registry lists, getLatestVersion returns the
\* greatest one without a pre-release identifier, compared component by
\* component as numbers; it returns no version when none is stable, and it
\* never returns a pre-release.
C18_LatestStable ==
    lvPc = "returned" =>
        /\ lvResult = NoVer \/ ~HasPreReleaseMark(lvResult)
        /\ lvListed.kind = "list" =>
              IF StableListed = {} THEN lvResult = NoVer
              ELSE /\ lvResult \in StableListed
                   /\ \A v \in StableListed : NotGreater(v, lvResult)

C18_Witness ==
    /\ lvPc = "returned"
    /\ lvListed.kind = "list"
    /\ lvListed.versions =
          <<Stable3(2, 10, 0), Beta3(10, 0, 0), Stable3(2, 9, 0)>>
    /\ lvResult = Stable3(2, 10, 0)

----------------------------------------------------------------------------
(* C19: the cache of getLatestVersion under the scan *)

\* C19: within a run each key of the lookup cache is set at most once and at
\* most one registry query is issued per key, also when several lookups of
\* one key are in flight together, and no entry is evicted.
C19_WriteOncePerKey ==
    /\ [](\A n \in PlanPkgs : queries[n] <= 1 /\ cacheSets[n] <= 1)
    /\ [][\A e \in latestCache : Cached(latestCache', e.name)]_vars

----------------------------------------------------------------------------
(* C20 *)

\* the snapshot entries whose lookup has returned null
FailedAt(k) == k < idx /\ ~MetaAt(k).ok

\* C20: a failed peer lookup is not fatal. The package whose lookup failed
\* triggers no insertion and no overwrite (no decision names it as the
\* requirer, none of its peers is handled); every package whose lookup
\* succeeded has each declared peer handled, and its non-optional peers are
\* in the manifest; and every entry before the loop's position has been
\* queried, the resolver returning only from past the last entry.
C20_FailedLookupNonFatal ==
    /\ \A k \in 1..(idx - 1) :
          SpecKey(universe[k].name, universe[k].spec) \in Known(registry)
    /\ pc = "done" => idx = Len(universe) + 1
    /\ \A k \in 1..(idx - 1) :
          FailedAt(k) =>
              /\ \A r \in Records : Requirer(r) # universe[k].name
              /\ \A q \in 1..Len(processed) :
                    processed[q][1] # universe[k].name
    /\ \A k \in 1..(idx - 1) :
          ~FailedAt(k) =>
              \A d \in DeclsAt(k) :
                  /\ \E q \in 1..Len(processed) :
                        processed[q] = <<universe[k].name, d.name>>
                  /\ ~d.optional => d.name \in Manifest

\* a call that has returned, in which one lookup failed and a later entry's
\* peer requirement changed the manifest
C20_Witness ==
    /\ pc = "done" /\ run = 1
    /\ \E j, k \in 1..Len(universe) :
          /\ j < k
          /\ FailedAt(j)
          /\ \E r \in Records : Requirer(r) = universe[k].name

----------------------------------------------------------------------------
(* C21 *)

\* C21: a malformed version string or a malformed peer range leaves the
\* entry alone (marked Unresolved): no entry is overwritten with a peer
\* range that is not a valid range, and no entry whose value is not a valid
\* range is overwritten.
C21_MalformedLeftAlone ==
    \A r \in Records :
        IsAligned(r) => ValidRange(r.to) /\ ValidRange(r.from)

----------------------------------------------------------------------------
(* C22 *)

\* the decision records of the returned plan
PlanRecords == {plan.upgraded[k] : k \in 1..Len(plan.upgraded)}

\* package n's value in section `final` differs from its value in the same
\* section `source` of the old package.json
ChangedIn(source, final, n) ==
    Has(source, n) /\ Has(final, n) /\ Get(source, n) # Get(final, n)

\* the decision records account for the change of n from `old` to `new`:
\* one carries the old value and one carries the new value
Accounted(n, old, new) ==
    /\ \E r \in PlanRecords : r.name = n /\ r.from = old
    /\ \E r \in PlanRecords : r.name = n /\ r.to = new

\* C22: in the returned plan, every entry whose value differs from its value
\* in the old package.json has decision records carrying the old and the new
\* value.
C22_ChangesRecorded ==
    planPc = "frozen" =>
        /\ \A n \in Keys(oldDeps) :
              ChangedIn(oldDeps, plan.deps, n) =>
                  Accounted(n, Get(oldDeps, n), Get(plan.deps, n))
        /\ \A n \in Keys(oldDevDeps) :
              ChangedIn(oldDevDeps, plan.devDeps, n) =>
                  Accounted(n, Get(oldDevDeps, n), Get(plan.devDeps, n))

----------------------------------------------------------------------------
(* C23 *)

\* C23: a call that was cancelled while a peer query was in flight returns
\* with the status Aborted and the manifest of the last fully applied round
\* (the manifest it was handed, the cancelled round being its first).
C23_AbortedOnCancel ==
    (pc = "done" /\ cancelled) =>
        /\ Status = "Aborted"
        /\ deps = depsIn
        /\ devDeps = devDepsIn

----------------------------------------------------------------------------
(* C24 *)

\* map m still has every key of map m0, at the position it had
KeepsKeys(m0, m) ==
    /\ Len(m) >= Len(m0)
    /\ \A k \in 1..Len(m0) : m[k].name = m0[k].name

\* C24: peer resolution preserves the section of every package. Each section
\* keeps the keys it had on entry (nothing is removed or moved);
\* devDependencies gets no new key, and a key that is new in dependencies
\* was in neither section on entry and has an Added decision; an entry whose
\* value changed has a decision that names it, and a package that is in
\* both sections is only ever changed in dependencies.
C24_SectionsPreserved ==
    /\ KeepsKeys(depsIn, deps)
    /\ KeepsKeys(devDepsIn, devDeps)
    /\ Len(devDeps) = Len(devDepsIn)
    /\ \A n \in Keys(deps) \ Keys(depsIn) :
          /\ n \notin Keys(devDepsIn)
          /\ \E r \in Records : IsAdded(r) /\ r.name = n
    /\ \A n \in Keys(depsIn) \cap Keys(devDepsIn) :
          Get(devDeps, n) = Get(devDepsIn, n)
    /\ \A n \in Keys(devDepsIn) :
          Get(devDeps, n) # Get(devDepsIn, n) =>
              \E r \in Records :
                  IsAligned(r) /\ r.name = n /\ r.to = Get(devDeps, n)

----------------------------------------------------------------------------
(* File tools: path policy and dry runs *)

\* the project paths the running tool was given
GivenPaths ==
    IF fsTool = "none" THEN {}
    ELSE IF fsTool = "analyze" THEN {fsArgs.old}
    ELSE {fsArgs.old, fsArgs.new}

\* C25: every file operation and every spawned command of the four tools
\* acts on a path inside the allowed roots, and a call given a project path
\* outside the roots ends in a policy error without having touched the
\* file system
C25_InsideAllowedRoots ==
    /\ \A i \in 1..Len(fsLog) : Allowed(fsLog[i].path)
    /\ (\E p \in GivenPaths : ~EnsureInsideAllowed(p)) =>
          /\ fsLog = <<>>
          /\ fsPc # "call" => fsReport.outcome = "policy error"

\* what migrateComponent copies when it writes, from the disk the call
\* started with
PlannedCopies ==
    CoLocated(
        CopyInto([log |-> <<>>, disk |-> EnsureDir(fsArgs.disk, TargetDirAbs),
                  copied |-> <<>>, updated |-> <<>>],
                 Dirname(CompTsOldAbs),
                 Present(fsArgs.disk, Dirname(CompTsOldAbs), SiblingCandidates),
                 FALSE),
        FALSE).copied

\* a dry run has left the disk as it was
DryRunFrame ==
    (fsTool \in {"assets", "component"} /\ fsArgs.dryRun) =>
        /\ fsDisk = fsArgs.disk
        /\ \A i \in 1..Len(fsLog) : fsLog[i].op \notin Mutating

\* C26: with dryRun, migrateAssets and migrateComponent change nothing on
\* disk, and the report they return lists the files a writing run copies
C26_DryRunPlans ==
    /\ DryRunFrame
    /\ (/\ fsTool \in {"assets", "component"}
        /\ fsArgs.dryRun
        /\ fsPc = "returned"
        /\ fsReport.outcome = "migrated") =>
           fsReport.copied =
               IF fsTool = "assets" THEN Matches ELSE PlannedCopies

\* the value selected for package n when record j is written: the `to` of
\* the latest earlier record for n, else n's value in the input manifest
RECURSIVE SelectedBefore(_, _)
SelectedBefore(j, n) ==
    IF j = 1
    THEN IF Has(depsIn, n) THEN Get(depsIn, n) ELSE Get(devDepsIn, n)
    ELSE IF upgraded[j - 1].name = n THEN upgraded[j - 1].to
    ELSE SelectedBefore(j - 1, n)

\* C27: the queries of a round are those of the snapshot entries, name and
\* VersionSpec as the snapshot recorded them (a package inserted or
\* overwritten during the round is not queried with its new value), and a
\* requirement is tested against the peer's value as selected when the
\* requirement is processed, values written earlier in the round included
C27_SnapshotQueriesCurrentTests ==
    /\ \A e \in registry : \E k \in 1..(idx - 1) :
          /\ k <= Len(universe)
          /\ e.key = SpecKey(universe[k].name, universe[k].spec)
    /\ \A k \in 1..Len(universe) :
          universe[k].spec =
              IF Has(devDepsIn, universe[k].name)
              THEN Get(devDepsIn, universe[k].name)
              ELSE Get(depsIn, universe[k].name)
    /\ \A j \in 1..Len(upgraded) :
          IF IsAligned(upgraded[j])
          THEN /\ upgraded[j].from = SelectedBefore(j, upgraded[j].name)
               /\ ~Compatible(upgraded[j].from, upgraded[j].to)
          ELSE Falsy(SelectedBefore(j, upgraded[j].name))

\* a peer was set and then overwritten in the round, the second requirement
\* tested against the value the first had written; the peer, last in the
\* snapshot, was queried after both writes, with the VersionSpec of the
\* snapshot and with neither of the new values
C27_Witness ==
    /\ pc = "done" /\ run = 1
    /\ \E j \in 2..Len(upgraded) :
          /\ IsAligned(upgraded[j])
          /\ upgraded[j - 1].name = upgraded[j].name
          /\ upgraded[j].from = upgraded[j - 1].to
          /\ universe[Len(universe)].name = upgraded[j].name
          /\ universe[Len(universe)].spec \notin
                {upgraded[j - 1].to, upgraded[j].to}
          /\ \A e \in registry :
                e.key[1] = upgraded[j].name =>
                    e.key[2] = universe[Len(universe)].spec

\* the declarations on peer n the round has processed, in processing order,
\* from snapshot entry k on
RECURSIVE DeclsOn(_, _)
DeclsOn(n, k) ==
    IF k >= idx THEN <<>>
    ELSE SelectSeq(PeersAt(k), LAMBDA d : d.name = n) \o DeclsOn(n, k + 1)

\* peer n was in the manifest handed over and exactly two requirers declare
\* it, both as mandatory, at ranges neither of which accepts the other
Contested(n) ==
    /\ pc = "done"
    /\ n \in ManifestIn
    /\ Len(DeclsOn(n, 1)) = 2
    /\ ~DeclsOn(n, 1)[1].optional
    /\ ~DeclsOn(n, 1)[2].optional
    /\ ~Compatible(DeclsOn(n, 1)[1].range, DeclsOn(n, 1)[2].range)
    /\ ~Compatible(DeclsOn(n, 1)[2].range, DeclsOn(n, 1)[1].range)

\* the value handed over for n, as the code selects it
GivenFor(n) == IF Has(depsIn, n) THEN Get(depsIn, n) ELSE Get(devDepsIn, n)

\* the value handed over for n is there and accepted by both declarations
AcceptedByBoth(n) ==
    /\ ~Falsy(GivenFor(n))
    /\ Compatible(GivenFor(n), DeclsOn(n, 1)[1].range)
    /\ Compatible(GivenFor(n), DeclsOn(n, 1)[2].range)

\* C28 as stated: last-processed-wins whatever the peer's initial value,
\* returned as a normal success
C28_LastProcessedWins ==
    \A n \in Pkgs :
        Contested(n) =>
            /\ Have(deps, devDeps, n) = DeclsOn(n, 1)[2].range
            /\ Status = "returned"

\* C28, amended: the value selected for the peer ends as the range of the
\* requirer processed last, unless the value handed over is non-empty and
\* accepted by both ranges, in which case it is kept; either way the call
\* returns normally and every record is an Added or an Aligned decision
C28_LastWinsUnlessBothAccept ==
    \A n \in Pkgs :
        Contested(n) =>
            /\ Have(deps, devDeps, n) =
                  IF AcceptedByBoth(n) THEN GivenFor(n)
                  ELSE DeclsOn(n, 1)[2].range
            /\ Status = "returned"
            /\ \A r \in Records : IsAdded(r) \/ IsAligned(r)

\* two requirers have set the peer one after the other, and the second
\* range stands
C28_Witness ==
    \E n \in Pkgs :
        /\ Contested(n)
        /\ ~AcceptedByBoth(n)
        /\ Cardinality({k \in 1..Len(upgraded) : upgraded[k].name = n}) = 2
        /\ Have(deps, devDeps, n) = DeclsOn(n, 1)[2].range
        /\ Have(deps, devDeps, n) # DeclsOn(n, 1)[1].range

----------------------------------------------------------------------------
(* mapLimit: results and settlement *)

\* the items whose task has been started are the first mlI, each task is
\* where its result says, and a resolved promise holds every result
ResultsInPlace ==
    /\ \A k \in 1..mlN : (mlTask[k] # "idle") <=> (k <= mlI)
    /\ \A k \in 1..mlN :
          mlResults[k] = IF mlTask[k] = "done" THEN TaskResult(k) ELSE Empty
    /\ mlSettled = "resolved" => \A k \in 1..mlN : mlTask[k] = "done"

\* a task that has been started is not started again
StartedOnce ==
    \A k \in 1..mlN :
        mlTask[k] \in {"done", "failed"} => mlTask'[k] = mlTask[k]

\* C29: mapLimit runs the task once per item and stores each result at its
\* item's position, in whatever order the tasks complete: the list a
\* resolved mapLimit returns has results[k] = the result for items[k]
C29_PositionalResults == []ResultsInPlace /\ [][StartedOnce]_vars

\* item 2 has completed before item 1, and its result is at position 2
C29_Witness ==
    /\ mlN >= 2
    /\ mlTask[1] = "running"
    /\ mlTask[2] = "done"
    /\ mlResults[2] = TaskResult(2)
    /\ mlResults[1] = Empty

\* the promise is resolved only with every task done, and resolve is called
\* once at most
SettlesOnce ==
    /\ mlResolveCalls <= 1
    /\ mlSettled = "resolved" =>
          /\ mlResolveCalls = 1
          /\ mlI = mlN
          /\ mlActive = 0
          /\ \A k \in 1..mlN : mlTask[k] = "done"

\* C30: for every item list, the empty one included, and every limit >= 1,
\* when the tasks started complete successfully the promise resolves in the
\* end, only after all tasks have completed, and once
C30_EventuallyResolves ==
    /\ [](mlLimit >= 1 => SettlesOnce)
    /\ (mlLimit >= 1) ~>
          (mlSettled = "resolved" \/ \E k \in 1..mlN : mlTask[k] = "failed")

\* more items than the limit allows at once, all done, the promise resolved
C30_Witness ==
    /\ mlLimit >= 1
    /\ mlLimit < mlN
    /\ mlSettled = "resolved"
    /\ mlResolveCalls = 1
    /\ \A k \in 1..mlN : mlTask[k] = "done"

====
